---- MODULE Spec2Model ----
(***************************************************************************)
(* Model of the POST /plan pipeline of cf-todoist-daily-agent              *)
(* (src/unnamed/part_002, the route handler).  One request is modelled     *)
(* from its arrival at POST, through validation and the construction of    *)
(* the response stream, to the settlement of the pipeline's promise; the   *)
(* pure helpers are also examined on their own, over bounded inputs.       *)
(* Every pipeline action is the synchronous code that runs                 *)
(* between two suspension points (awaits on an external call); the caller  *)
(* may disconnect only while the pipeline is suspended.                    *)
(***************************************************************************)
EXTENDS Integers, Sequences, FiniteSets, TLC

VARIABLES
  fn,             \* a pure function under examination: its input and its result
  request,        \* the request as received: Origin header and raw body
  reply,          \* what POST returned: "" (nothing yet) or the HTTP status
  env,            \* process configuration: TODOIST_MCP_URL / TODOIST_TOKEN
  input,          \* the validated request body (PlanRequestBody)
  pc,             \* suspension point the pipeline is waiting at
  streamState,    \* state of the ReadableStream behind `controller`
  events,         \* events enqueued on the stream so far, in order
  client,         \* the MCP client: "null" or "client"
  availableTools, \* tool catalog of the first listTools call, or Null
  scenario,       \* PlanScenario chosen by determineScenario, or Null
  listTool,       \* per metadata half: state of its list-tool call
  planTasks,      \* plan.tasks: the normalized task list
  toolName,       \* creation tool resolved by resolveToolName
  toolsList,      \* the catalog resolveToolName looked at
  idx,            \* position of the sync loop in planTasks
  results,        \* the results array of syncWithTodoist / of POST
  calls,          \* log of the external calls issued, in order
  pending,        \* external calls issued and not yet settled
  settled,        \* log of the external calls that resolved or threw
  thrown,         \* an exception left the try/catch of the pipeline body
  uncaught        \* an exception left the pipeline's promise chain

vars == <<fn, request, reply, env, input, pc, streamState, events, client, availableTools,
          scenario, listTool, planTasks, toolName, toolsList, idx, results, calls,
          pending, settled, thrown, uncaught>>

Null == "null"

(***************************************************************************)
(* Bounds of the model.                                                    *)
(***************************************************************************)
MaxGen == 3                 \* most tasks the generation call returns
MaxCatalog == 3             \* longest tool catalog given to a resolver on its own
MaxNest == 2                \* deepest nesting of objects in a list-tool payload
MaxPlan == 7                \* most tasks a generated plan holds when generatePlan is on its own
MaxCues == 2                \* most words of a prompt examined for priority cues
MaxLabels == 2              \* most labels a task or a request carries on its own
MaxBlocks == 2              \* most content blocks of a tool response
MaxWords == 2               \* most words of a tool description
MaxPriorityInput == 6       \* largest cue digit and largest magnitude of a priority number
MaxSubmits == 4             \* most /plan requests the browser client starts
MaxStream == 4              \* most bytes of a response stream read by the client

(***************************************************************************)
(* Program constants.                                                      *)
(***************************************************************************)
MIN_TASKS == 1
MAX_TASKS == 10

Min(a, b) == IF a < b THEN a ELSE b
Max(a, b) == IF a > b THEN a ELSE b

IntentTypes == {"single_reminder", "multi_step_plan", "recipe_plan", "general_plan"}

(***************************************************************************)
(* Tool descriptors.  A descriptor is its name and the set of keywords     *)
(* that occur as substrings of buildToolText(tool), the lower-cased        *)
(* "name description" text the heuristic predicate searches.               *)
(***************************************************************************)
LIST_VERB_KEYWORDS == {"list", "find", "search", "get", "overview", "browse", "view", "all"}
MUTATING_KEYWORDS == {"add", "create", "update", "delete", "remove", "complete", "close",
                      "assign", "set", "comment"}

Tool(n, w) == [name |-> n, words |-> w]

\* Variant: the mutating keywords are not looked at.
matchesListToolIgnoresMutating(tool, keywords) ==
  IF tool.words \cap keywords = {} THEN FALSE
  ELSE IF tool.words \cap LIST_VERB_KEYWORDS = {} THEN FALSE
  ELSE TRUE

matchesListTool(tool, keywords) ==
  IF tool.words \cap keywords = {} THEN FALSE
  ELSE IF tool.words \cap LIST_VERB_KEYWORDS = {} THEN FALSE
  ELSE IF tool.words \cap MUTATING_KEYWORDS # {} THEN FALSE
  ELSE TRUE

\* One alias rule: an explicit name list, and/or a match predicate that is
\* either a test of the tool's name or the keyword heuristic.
Alias(names, match, target, hasArgs, resultKeys) ==
  [names |-> names, match |-> match, target |-> target, hasArgs |-> hasArgs,
   hasKeys |-> resultKeys # <<>>, resultKeys |-> resultKeys]

PROJECT_TOOL_ALIASES == <<
  Alias({"todoist_projects"}, "none", {}, TRUE, <<"data", "projects">>),
  Alias({"todoist.projects.list", "todoist.projects.search", "todoist.projects.overview"},
        "none", {}, FALSE, <<"projects", "items", "data", "results">>),
  Alias({}, "name", {"find-projects"}, FALSE, <<"projects", "data">>),
  Alias({}, "heuristic", {"project", "projects"}, FALSE, <<>>) >>

LABEL_TOOL_ALIASES == <<
  Alias({"todoist_labels"}, "none", {}, TRUE, <<"data", "labels">>),
  Alias({"todoist.labels.list", "todoist.labels.search"},
        "none", {}, FALSE, <<"labels", "items", "data", "results">>),
  Alias({}, "name", {"find-labels"}, FALSE, <<"labels", "data">>),
  Alias({}, "heuristic", {"label", "labels", "tag", "tags"}, FALSE, <<>>) >>

\* alias.match(tool)
AliasPredicate(alias, tool) ==
  CASE alias.match = "name" -> tool.name \in alias.target
    [] alias.match = "heuristic" -> matchesListTool(tool, alias.target)
    [] OTHER -> FALSE

\* tools.find(...): index of the first tool satisfying the rule, 0 if none.
\* The name list is searched first, the predicate only when it found nothing.
AliasFind(tools, alias) ==
  LET byName == {i \in 1..Len(tools) : tools[i].name \in alias.names}
      byPred == {i \in 1..Len(tools) : AliasPredicate(alias, tools[i])}
      first(S) == CHOOSE i \in S : \A j \in S : i <= j
  IN IF alias.names # {} /\ byName # {} THEN first(byName)
     ELSE IF alias.match # "none" /\ byPred # {} THEN first(byPred)
     ELSE 0

NoListTool == [found |-> FALSE, name |-> "", hasArgs |-> FALSE, hasKeys |-> FALSE,
               resultKeys |-> <<>>]

RECURSIVE resolveListToolFrom(_, _, _)
\* Variant: the last rule (the heuristic) is tried before the others.
resolveListToolLastRuleFirst(tools, aliases, k) ==
  LET last == aliases[Len(aliases)]
      h == AliasFind(tools, last)
      m == AliasFind(tools, aliases[k])
  IN IF k = 1 /\ h # 0
     THEN [found |-> TRUE, name |-> tools[h].name, hasArgs |-> last.hasArgs,
           hasKeys |-> last.hasKeys, resultKeys |-> last.resultKeys]
     ELSE IF k > Len(aliases) THEN NoListTool
     ELSE IF m # 0
     THEN [found |-> TRUE, name |-> tools[m].name, hasArgs |-> aliases[k].hasArgs,
           hasKeys |-> aliases[k].hasKeys, resultKeys |-> aliases[k].resultKeys]
     ELSE resolveListToolFrom(tools, aliases, k + 1)

resolveListToolFrom(tools, aliases, k) ==
  IF k > Len(aliases) THEN NoListTool
  ELSE LET m == AliasFind(tools, aliases[k])
       IN IF m # 0
          THEN [found |-> TRUE, name |-> tools[m].name, hasArgs |-> aliases[k].hasArgs,
                hasKeys |-> aliases[k].hasKeys, resultKeys |-> aliases[k].resultKeys]
          ELSE resolveListToolFrom(tools, aliases, k + 1)

resolveListToolConfig(tools, aliases) == resolveListToolFrom(tools, aliases, 1)

(***************************************************************************)
(* Array extraction from a list-tool response.  A JSON value is a record:  *)
(* an array is its length, an object the sequence of its members.          *)
(***************************************************************************)
DEFAULT_COLLECTION_KEYS ==
  <<"projects", "labels", "data", "items", "results", "structuredContent">>

JsonValue(kind, len, entries) == [kind |-> kind, len |-> len, entries |-> entries]
Undefined == JsonValue("undefined", 0, <<>>)
JsonNull == JsonValue("null", 0, <<>>)
JsonString == JsonValue("string", 0, <<>>)
JsonArray(n) == JsonValue("array", n, <<>>)
JsonObject(entries) == JsonValue("object", 0, entries)
Member(key, val) == [key |-> key, val |-> val]

\* !value
Falsy(value) == value.kind \in {"undefined", "null"}

\* value[key]
Lookup(value, key) ==
  LET hits == {i \in 1..Len(value.entries) : value.entries[i].key = key}
  IN IF hits = {} THEN Undefined
     ELSE value.entries[CHOOSE i \in hits : \A j \in hits : i <= j].val

RECURSIVE pluckArray(_, _)
RECURSIVE pluckArrayFrom(_, _, _)
\* The loop `for (const key of keys)` of pluckArray from the i-th key on.
pluckArrayFrom(value, keys, i) ==
  IF i > Len(keys) THEN Undefined
  ELSE LET candidate == Lookup(value, keys[i])
       IN IF candidate.kind = "array" THEN candidate
          ELSE IF ~Falsy(candidate) /\ candidate.kind = "object"
          THEN LET nested == pluckArray(candidate, keys)
               IN IF ~Falsy(nested) THEN nested
                  ELSE pluckArrayFrom(value, keys, i + 1)
          ELSE pluckArrayFrom(value, keys, i + 1)

pluckArray(value, keys) ==
  IF Falsy(value) THEN Undefined
  ELSE IF value.kind = "array" THEN value
  ELSE IF value.kind # "object" THEN Undefined
  ELSE pluckArrayFrom(value, keys, 1)

\* array.find(pred), hits being the indices of the entries that satisfy
\* pred: index of the first match, 0 if none
find(hits) ==
  IF hits = {} THEN 0 ELSE CHOOSE i \in hits : \A j \in hits : i <= j

(***************************************************************************)
(* Tool responses.  A response is an object with an optional structured    *)
(* content (under either spelling) and an optional array of content        *)
(* blocks.  A text is absent, the empty string, or a string that may be    *)
(* wrapped in a code fence; `payload` is the value its unfenced characters *)
(* denote as JSON, Undefined when they are not JSON.                       *)
(***************************************************************************)
Text(kind, fenced, payload) == [kind |-> kind, fenced |-> fenced, payload |-> payload]
NoText == Text("absent", FALSE, Undefined)
EmptyText == Text("empty", FALSE, Undefined)

Block(type, mimeType, json, text) ==
  [type |-> type, mimeType |-> mimeType, json |-> json, text |-> text]

Response(structuredContent, structured_content, hasContent, content) ==
  [structuredContent |-> structuredContent, structured_content |-> structured_content,
   hasContent |-> hasContent, content |-> content]

\* stripJsonFence: the text without its fence.
stripJsonFence(text) == [text EXCEPT !.fenced = FALSE]

\* try { return JSON.parse(text) } catch { return undefined }
ParseOrUndefined(text) ==
  IF text.kind = "string" /\ ~text.fenced THEN text.payload ELSE Undefined

extractStructuredContent(response) ==
  IF response.structuredContent # Undefined THEN response.structuredContent
  ELSE response.structured_content

\* extractToolJsonBlock: a value (kind "value"), a string (kind "text") or
\* undefined.
extractToolJsonBlock(response) ==
  LET content == response.content
      jsonEntry == find({i \in 1..Len(content) : content[i].type = "json"})
      jsonTextEntry == find({i \in 1..Len(content) : content[i].mimeType = "application/json"})
  IN IF jsonEntry # 0 /\ content[jsonEntry].json # Undefined
     THEN [kind |-> "value", value |-> content[jsonEntry].json, text |-> NoText]
     ELSE IF jsonTextEntry # 0 /\ content[jsonTextEntry].text.kind # "absent"
     THEN [kind |-> "text", value |-> Undefined, text |-> content[jsonTextEntry].text]
     ELSE [kind |-> "undefined", value |-> Undefined, text |-> NoText]

\* extractToolText: the unfenced text of the first plain text block that has
\* text, else of the first text block that has text; NoText for undefined.
extractToolText(response) ==
  LET content == response.content
      textBlocks == {i \in 1..Len(content) : content[i].type = "text"}
      plainTextBlock == find({i \in textBlocks : /\ content[i].mimeType # "application/json"
                                                 /\ content[i].text.kind = "string"})
      target == IF plainTextBlock # 0 THEN plainTextBlock
                ELSE find({i \in textBlocks : content[i].text.kind = "string"})
  IN IF target = 0 THEN NoText ELSE stripJsonFence(content[target].text)

\* parseToolJson: Undefined when the response has no parseable payload.
parseToolJson(response) ==
  LET structured == extractStructuredContent(response)
      jsonBlock == extractToolJsonBlock(response)
      text == extractToolText(response)
  IN IF structured # Undefined THEN structured
     ELSE IF jsonBlock.kind = "value" THEN jsonBlock.value
     ELSE IF jsonBlock.kind = "text" THEN ParseOrUndefined(jsonBlock.text)
     ELSE IF text.kind # "string" THEN Undefined
     ELSE ParseOrUndefined(text)

\* a ?? b on values
Nullish(v) == v.kind \in {"undefined", "null"}

NoParsed == [defined |-> FALSE, id |-> Undefined, message |-> NoText]

\* parseTodoistResponse: the identifier of the created task, or the text of
\* the response as a message, or undefined.
parseTodoistResponse(response) ==
  LET parsed == parseToolJson(response)
      text == extractToolText(response)
      id == IF ~Nullish(Lookup(parsed, "id")) THEN Lookup(parsed, "id")
            ELSE IF ~Nullish(Lookup(parsed, "task_id")) THEN Lookup(parsed, "task_id")
            ELSE Lookup(parsed, "uuid")
  IN IF ~Falsy(parsed) THEN [defined |-> TRUE, id |-> id, message |-> NoText]
     ELSE IF text.kind = "string" THEN [defined |-> TRUE, id |-> Undefined, message |-> text]
     ELSE NoParsed

\* Variant: a response without an identifier makes the task failed.
createdResultNeedsId(task, response) ==
  LET parsed == parseTodoistResponse(response)
  IN [planned |-> task,
      status |-> IF parsed.defined /\ parsed.id # Undefined THEN "created" ELSE "failed",
      todoistId |-> IF parsed.defined THEN parsed.id ELSE Undefined]

\* The result syncWithTodoist records when the creation call has returned
\* `response`: todoistId is parsed?.id.
createdResult(task, response) ==
  LET parsed == parseTodoistResponse(response)
  IN [planned |-> task, status |-> "created",
      todoistId |-> IF parsed.defined THEN parsed.id ELSE Undefined]

\* extractArrayPayload(response, config.resultKeys) for the resolved tool
\* `config`: preferredKeys ?? Array.from(DEFAULT_COLLECTION_KEYS).
extractArrayPayload(response, config) ==
  LET parsed == parseToolJson(response)
      keys == IF config.hasKeys THEN config.resultKeys ELSE DEFAULT_COLLECTION_KEYS
      direct == pluckArray(parsed, keys)
  IN IF direct.kind = "array" THEN direct ELSE JsonArray(0)

(***************************************************************************)
(* Optional values: an absent member or a value.                           *)
(***************************************************************************)
Opt(v) == [present |-> TRUE, value |-> v]
None == [present |-> FALSE, value |-> 0]
NoLabels == [present |-> FALSE, value |-> <<>>]

(***************************************************************************)
(* Strings.  The model's strings come from a small alphabet of names in    *)
(* several casings and with surrounding blanks; toLowerCase and trim are   *)
(* given on that alphabet.  An optional string is absent or a value, and   *)
(* is falsy when absent or empty.                                          *)
(***************************************************************************)
toLowerCase(s) ==
  CASE s \in {"Work", "WORK"} -> "work"
    [] s = " Work " -> " work "
    [] s = "Home" -> "home"
    [] s = "Inbox" -> "inbox"
    [] s = "Garden" -> "garden"
    [] s \in {"Urgent", "URGENT"} -> "urgent"
    [] s = " Urgent " -> " urgent "
    [] s = "Errand" -> "errand"
    [] s = "Find-Projects" -> "find-projects"
    [] s = "List" -> "list"
    [] s = "Settings" -> "settings"
    [] OTHER -> s

trim(s) ==
  CASE s = " Work " -> "Work"
    [] s = " work " -> "work"
    [] s = " Urgent " -> "Urgent"
    [] s = " urgent " -> "urgent"
    [] s = " " -> ""
    [] OTHER -> s

NoString == [present |-> FALSE, value |-> ""]
Truthy(opt) == opt.present /\ opt.value # ""

(***************************************************************************)
(* The text of a tool descriptor.  A descriptor is a name and an optional  *)
(* description, a set of words; its text is the set of its lower-cased     *)
(* words, and text.includes(keyword) holds when a word has the keyword as  *)
(* a substring.                                                            *)
(***************************************************************************)
Descriptor(name, description) == [name |-> name, description |-> description]
NoDescription == [present |-> FALSE, value |-> {}]

\* The keywords that are substrings of a lower-case word.
KeywordsIn(word) ==
  CASE word = "find-labels" -> {"find", "label", "labels"}
    [] word = "find-projects" -> {"find", "project", "projects"}
    [] word = "update-label" -> {"update", "label"}
    [] word = "tags" -> {"tag", "tags"}
    [] word = "list" -> {"list"}
    [] word = "labels" -> {"label", "labels"}
    [] word = "project" -> {"project"}
    [] word = "settings" -> {"set"}
    [] word = "overview" -> {"overview", "view"}
    [] word = "address" -> {"add"}
    [] OTHER -> {}

buildToolText(descriptor) ==
  {toLowerCase(descriptor.name)} \cup
    (IF descriptor.description.present
     THEN {toLowerCase(w) : w \in descriptor.description.value}
     ELSE {})

\* text.includes(keyword)
includes(text, keyword) == \E word \in text : keyword \in KeywordsIn(word)

\* The descriptor as a tool: its name and the keywords its text contains.
ToolOf(descriptor) ==
  Tool(descriptor.name,
       {k \in LIST_VERB_KEYWORDS \cup MUTATING_KEYWORDS
                 \cup {"project", "projects", "label", "labels", "tag", "tags"} :
          includes(buildToolText(descriptor), k)})

(***************************************************************************)
(* Task normalization: project reference and due date, and the arguments   *)
(* of the creation call built from a normalized task.                      *)
(***************************************************************************)
ProjectSummary(id, name, isInbox) == [id |-> id, name |-> name, isInbox |-> isInbox]
NoProject == [defined |-> FALSE, id |-> NoString, name |-> NoString]
Project(id, name) == [defined |-> TRUE, id |-> id, name |-> name]
\* inferred: null, or a project of the catalog
NoInferred == [found |-> FALSE, id |-> "", name |-> ""]
Inferred(p) == [found |-> TRUE, id |-> p.id, name |-> p.name]

\* a ?? b on optional strings
Coalesce(a, b) == IF a.present THEN a ELSE b

\* Variant: a task with no project of its own is sent to an explicit inbox id.
resolveProjectReferenceExplicitInbox(task, projects, inferred) ==
  IF Truthy(task.projectId)
  THEN Project(task.projectId, Coalesce(task.project, task.projectId))
  ELSE IF Truthy(task.project) THEN Project(NoString, Opt(trim(task.project.value)))
  ELSE IF inferred.found THEN Project(Opt(inferred.id), Opt(inferred.name))
  ELSE Project(Opt("inbox"), Opt("Inbox"))

resolveProjectReference(task, projects, inferred) ==
  IF Len(projects) = 0 /\ ~Truthy(task.projectId) /\ ~Truthy(task.project) /\ ~inferred.found
  THEN NoProject
  ELSE IF Truthy(task.projectId)
  THEN LET k == find({i \in 1..Len(projects) : projects[i].id = task.projectId.value})
           knownName == IF k = 0 THEN NoString ELSE Opt(projects[k].name)
       IN Project(task.projectId, Coalesce(knownName, Coalesce(task.project, task.projectId)))
  ELSE IF Truthy(task.project)
  THEN LET normalized == trim(task.project.value)
           k == find({i \in 1..Len(projects) :
                        toLowerCase(projects[i].name) = toLowerCase(normalized)})
       IN IF k # 0 THEN Project(Opt(projects[k].id), Opt(projects[k].name))
          ELSE Project(NoString, Opt(normalized))
  ELSE IF inferred.found THEN Project(Opt(inferred.id), Opt(inferred.name))
  ELSE NoProject

\* A due object: each representation absent or a value; `given` is false
\* for an absent object.
Due(given, datetime, date, string) ==
  [given |-> given, datetime |-> datetime, date |-> date, string |-> string]
NoDue == Due(FALSE, NoString, NoString, NoString)

\* Variant: the task's date is preferred to its datetime.
selectDueDateFirst(fromTask, fallback) ==
  IF ~fromTask.given /\ ~Truthy(fallback) THEN NoDue
  ELSE IF Truthy(fromTask.date) THEN Due(TRUE, NoString, fromTask.date, NoString)
  ELSE IF Truthy(fromTask.datetime) THEN Due(TRUE, fromTask.datetime, NoString, NoString)
  ELSE IF Truthy(fromTask.string) THEN Due(TRUE, NoString, NoString, fromTask.string)
  ELSE IF Truthy(fallback) THEN Due(TRUE, NoString, NoString, fallback)
  ELSE NoDue

selectDue(fromTask, fallback) ==
  IF ~fromTask.given /\ ~Truthy(fallback) THEN NoDue
  ELSE IF Truthy(fromTask.datetime) THEN Due(TRUE, fromTask.datetime, NoString, NoString)
  ELSE IF Truthy(fromTask.date) THEN Due(TRUE, NoString, fromTask.date, NoString)
  ELSE IF Truthy(fromTask.string) THEN Due(TRUE, NoString, NoString, fromTask.string)
  ELSE IF Truthy(fallback) THEN Due(TRUE, NoString, NoString, fallback)
  ELSE NoDue

\* Variant: a project inferred from the prompt replaces the task's own.
normalizeTaskInferredFirst(task, body, projects, inferred) ==
  LET project == IF inferred.found THEN Project(Opt(inferred.id), Opt(inferred.name))
                 ELSE resolveProjectReference(task, projects, inferred)
  IN [projectId |-> IF project.defined THEN project.id ELSE NoString,
      projectName |-> IF project.defined THEN project.name ELSE NoString,
      due |-> selectDue(task.due, body.due)]

\* The project and due fields of normalizeTask's result.
normalizeTask(task, body, projects, inferred) ==
  LET project == resolveProjectReference(task, projects, inferred)
  IN [projectId |-> IF project.defined THEN project.id ELSE NoString,
      projectName |-> IF project.defined THEN project.name ELSE NoString,
      due |-> selectDue(task.due, body.due)]

\* The project and due members of the payload toTodoistArgs builds.
toTodoistArgs(task, body) ==
  [projectId |-> IF Truthy(task.projectId) THEN task.projectId ELSE NoString,
   project_id |-> IF Truthy(task.projectId) THEN task.projectId ELSE NoString,
   dueDatetime |-> IF task.due.given /\ Truthy(task.due.datetime)
                   THEN task.due.datetime ELSE NoString,
   dueDate |-> IF task.due.given /\ ~Truthy(task.due.datetime) /\ Truthy(task.due.date)
               THEN task.due.date ELSE NoString,
   dueString |-> IF task.due.given /\ ~Truthy(task.due.datetime) /\ ~Truthy(task.due.date)
                    /\ Truthy(task.due.string)
                 THEN task.due.string
                 ELSE IF ~(task.due.given /\ (Truthy(task.due.datetime) \/ Truthy(task.due.date)
                                               \/ Truthy(task.due.string)))
                         /\ Truthy(body.due)
                 THEN body.due ELSE NoString]

(***************************************************************************)
(* Priority.  A prompt is a sequence of words; a word is a priority cue    *)
(* ("p", "priority" or the localized marker "zh", followed by a digit), a  *)
(* p and digit glued to a preceding letter ("glued"), or another word.     *)
(***************************************************************************)
Word(kind, digit, upper) == [kind |-> kind, digit |-> digit, upper |-> upper]

\* prompt.toLowerCase()
LowerWords(prompt) == [i \in 1..Len(prompt) |-> [prompt[i] EXCEPT !.upper = FALSE]]

\* The three patterns of detectPriorityFromPrompt, in their order.
PriorityPatterns == <<"p", "priority", "zh">>

\* normalized.match(pattern): index of the leftmost match, 0 if none
MatchPattern(words, kind) ==
  LET hits == {i \in 1..Len(words) :
                 words[i].kind = kind /\ ~words[i].upper /\ words[i].digit \in 0..4}
  IN IF hits = {} THEN 0 ELSE CHOOSE i \in hits : \A j \in hits : i <= j

\* Variant: the cue 0 is not a priority.
mapPriorityCueToApiNoZero(signal) ==
  CASE signal = 1 -> Opt(4)
    [] signal = 2 -> Opt(3)
    [] signal = 3 -> Opt(2)
    [] signal = 4 -> Opt(1)
    [] OTHER -> None

mapPriorityCueToApi(signal) ==
  CASE signal \in {0, 1} -> Opt(4)
    [] signal = 2 -> Opt(3)
    [] signal = 3 -> Opt(2)
    [] signal = 4 -> Opt(1)
    [] OTHER -> None

RECURSIVE detectPriorityFrom(_, _)
detectPriorityFrom(words, k) ==
  IF k > Len(PriorityPatterns) THEN None
  ELSE LET m == MatchPattern(words, PriorityPatterns[k])
       IN IF m # 0 /\ mapPriorityCueToApi(words[m].digit).present
          THEN mapPriorityCueToApi(words[m].digit)
          ELSE detectPriorityFrom(words, k + 1)

detectPriorityFromPrompt(prompt) == detectPriorityFrom(LowerWords(prompt), 1)

\* Variant: an absent priority becomes the lowest one.
clampPriorityDefaultsLow(priority) ==
  IF ~priority.present THEN Opt(1)
  ELSE Opt(Min(4, Max(1, priority.value)))

clampPriority(priority) ==
  IF ~priority.present THEN None
  ELSE Opt(Min(4, Max(1, priority.value)))

\* The priority member of normalizeTask's result:
\* clampPriority(task.priority ?? priorityHint ?? input.priority)
normalizePriority(taskPriority, priorityHint, requestPriority) ==
  clampPriority(Coalesce(taskPriority, Coalesce(priorityHint, requestPriority)))

(***************************************************************************)
(* Labels.  A label list is an optional sequence of strings; the label     *)
(* catalog is the sequence of the names of context.labels.                 *)
(***************************************************************************)
LabelCap == 5

\* Variant: the case-insensitive duplicate seen last replaces the earlier one.
DedupeFromKeepsLast(labels, i, result) ==
  LET trimmed == [k \in 1..Len(labels) |-> trim(labels[k])]
      kept == {k \in 1..Len(labels) :
                 /\ trimmed[k] # ""
                 /\ \A j \in (k + 1)..Len(labels) :
                      toLowerCase(trimmed[j]) # toLowerCase(trimmed[k])}
      all == SelectSeq([k \in 1..Len(labels) |-> k], LAMBDA k : k \in kept)
  IN [k \in 1..Min(LabelCap, Len(all)) |-> trimmed[all[k]]]

\* The loop of dedupeLabels from entry i on, result being what it has kept.
RECURSIVE DedupeFrom(_, _, _)
DedupeFrom(labels, i, result) ==
  IF i > Len(labels) \/ Len(result) = LabelCap THEN result
  ELSE LET trimmed == trim(labels[i])
           seen == {toLowerCase(result[j]) : j \in 1..Len(result)}
       IN IF trimmed = "" \/ toLowerCase(trimmed) \in seen
          THEN DedupeFrom(labels, i + 1, result)
          ELSE DedupeFrom(labels, i + 1, Append(result, trimmed))

dedupeLabels(labels) ==
  IF ~labels.present \/ Len(labels.value) = 0 THEN NoLabels
  ELSE LET result == DedupeFrom(labels.value, 1, <<>>)
       IN IF Len(result) > 0 THEN Opt(result) ELSE NoLabels

\* The callback of normalizeLabels' map: "" stands for the undefined that
\* filter(Boolean) drops.
CanonicalLabel(label, catalog) ==
  LET trimmed == trim(label)
      k == find({i \in 1..Len(catalog) : toLowerCase(catalog[i]) = toLowerCase(trimmed)})
  IN IF trimmed = "" THEN ""
     ELSE IF k # 0 THEN catalog[k] ELSE trimmed

normalizeLabels(preferred, fallback, catalog, inferred) ==
  LET source == IF preferred.present /\ Len(preferred.value) > 0 THEN preferred
                ELSE IF fallback.present THEN fallback
                ELSE inferred
  IN IF ~source.present \/ Len(source.value) = 0 THEN NoLabels
     ELSE LET mapped == [i \in 1..Len(source.value) |->
                           CanonicalLabel(source.value[i], catalog)]
          IN dedupeLabels(Opt(SelectSeq(mapped, LAMBDA l : l # "")))

\* inferLabelsFromPrompt: the catalog names the prompt contains, whatever
\* their case; mentions is the set of lower-case names the lower-cased
\* prompt contains.
inferLabelsFromPrompt(mentions, catalog) ==
  LET matches == SelectSeq(catalog, LAMBDA name : toLowerCase(name) \in mentions)
  IN IF Len(catalog) = 0 \/ Len(matches) = 0 THEN NoLabels ELSE Opt(matches)

(***************************************************************************)
(* Creation-tool resolution: the fixed preference list of resolveToolName. *)
(***************************************************************************)
PreferredCreateTools ==
  <<"create_task", "add-task", "add_task", "create-task", "add-tasks", "add_tasks">>

ToolNames(tools) == {tools[i].name : i \in 1..Len(tools)}

\* Variant: the first tool of the catalog that bears a preferred name.
resolveToolNameCatalogOrder(tools) ==
  LET hits == {i \in 1..Len(tools) :
                 \E k \in 1..Len(PreferredCreateTools) :
                   tools[i].name = PreferredCreateTools[k]}
  IN IF hits = {} THEN ""
     ELSE tools[CHOOSE i \in hits : \A j \in hits : i <= j].name

\* "" stands for the throw "No Todoist create task tool found".
resolveToolNameIn(tools) ==
  LET hits == {k \in 1..Len(PreferredCreateTools) :
                 PreferredCreateTools[k] \in ToolNames(tools)}
  IN IF hits = {} THEN ""
     ELSE PreferredCreateTools[CHOOSE k \in hits : \A j \in hits : k <= j]

isBulkTool(name) == name = "add-tasks" \/ name = "add_tasks"

(***************************************************************************)
(* Creation call arguments.  A number is an integer or NaN; the priority   *)
(* member of a payload is absent, a number or a string.                    *)
(***************************************************************************)
Num(n) == [nan |-> FALSE, value |-> n]
NaN == [nan |-> TRUE, value |-> 0]

\* The template literal `p${uiLevel}`.
UiFlag(uiLevel) ==
  CASE uiLevel = 1 -> "p1"
    [] uiLevel = 2 -> "p2"
    [] uiLevel = 3 -> "p3"
    [] uiLevel = 4 -> "p4"
    [] uiLevel = 0 -> "p0"
    [] uiLevel = 5 -> "p5"
    [] OTHER -> "p?"

\* Variant: the flag carries the API number as it is.
mapApiPriorityToUiFlagSameLevel(priority) ==
  IF priority.nan THEN "pNaN"
  ELSE UiFlag(Coalesce(clampPriority(Opt(priority.value)), Opt(1)).value)

\* Math.round, Math.max, Math.min and the subtraction all give NaN for NaN,
\* which is not nullish, and the template literal prints it.
mapApiPriorityToUiFlag(priority) ==
  IF priority.nan THEN "pNaN"
  ELSE LET normalized == Coalesce(clampPriority(Opt(priority.value)), Opt(1)).value
           uiLevel == 5 - normalized
       IN UiFlag(uiLevel)

NoPriorityArg == [kind |-> "absent", number |-> 0, string |-> ""]

\* The priority member of the payload toTodoistArgs builds.
priorityArg(priority, priorityStyle) ==
  IF ~priority.present THEN NoPriorityArg
  ELSE IF priorityStyle = "string"
  THEN [kind |-> "string", number |-> 0,
        string |-> mapApiPriorityToUiFlag(Num(priority.value))]
  ELSE [kind |-> "number", number |-> priority.value, string |-> ""]

\* Variant: every tool is sent the bare arguments.
callArgumentsNeverWrapped(name, task, body) ==
  LET bulk == isBulkTool(name)
      args == toTodoistArgs(task, body) @@
              [priority |-> priorityArg(task.priority, IF bulk THEN "string" ELSE "number")]
  IN args

\* The `arguments` of the creation call syncWithTodoist issues for one task.
callArguments(name, task, body) ==
  LET bulk == isBulkTool(name)
      args == toTodoistArgs(task, body) @@
              [priority |-> priorityArg(task.priority, IF bulk THEN "string" ELSE "number")]
  IN IF bulk THEN [tasks |-> <<args>>] ELSE args

(***************************************************************************)
(* Scenario selection.  decision.days = 0 stands for an absent `days`.     *)
(***************************************************************************)
clampMax(value) == Min(Max(value, MIN_TASKS), MAX_TASKS)

\* Variant: multi_step_plan takes the request's maxTasks without the floor of 2.
determineScenarioNoFloor(decision, body) ==
  CASE decision.intent = "single_reminder" ->
         [intent |-> "single_reminder", maxTasks |-> 1]
    [] decision.intent = "recipe_plan" ->
         LET requestedDays == IF decision.days = 0 THEN 3 ELSE decision.days
             days == Min(Max(requestedDays, 1), 5)
         IN [intent |-> "recipe_plan", maxTasks |-> clampMax(days * 2)]
    [] decision.intent = "multi_step_plan" ->
         [intent |-> "multi_step_plan", maxTasks |-> clampMax(body.maxTasks)]
    [] OTHER ->
         [intent |-> "general_plan", maxTasks |-> clampMax(body.maxTasks)]

\* Variant: recipe_plan allows one task per day.
determineScenarioTaskPerDay(decision, body) ==
  CASE decision.intent = "single_reminder" ->
         [intent |-> "single_reminder", maxTasks |-> 1]
    [] decision.intent = "recipe_plan" ->
         LET requestedDays == IF decision.days = 0 THEN 3 ELSE decision.days
             days == Min(Max(requestedDays, 1), 5)
         IN [intent |-> "recipe_plan", maxTasks |-> clampMax(days)]
    [] decision.intent = "multi_step_plan" ->
         [intent |-> "multi_step_plan", maxTasks |-> clampMax(Max(2, body.maxTasks))]
    [] OTHER ->
         [intent |-> "general_plan", maxTasks |-> clampMax(body.maxTasks)]

determineScenario(decision, body) ==
  CASE decision.intent = "single_reminder" ->
         [intent |-> "single_reminder", maxTasks |-> 1]
    [] decision.intent = "recipe_plan" ->
         LET requestedDays == IF decision.days = 0 THEN 3 ELSE decision.days
             days == Min(Max(requestedDays, 1), 5)
         IN [intent |-> "recipe_plan", maxTasks |-> clampMax(days * 2)]
    [] decision.intent = "multi_step_plan" ->
         [intent |-> "multi_step_plan", maxTasks |-> clampMax(Max(2, body.maxTasks))]
    [] OTHER ->
         [intent |-> "general_plan", maxTasks |-> clampMax(body.maxTasks)]

NoScenario == [intent |-> "none", maxTasks |-> 0]

\* The fallback decision of classifyIntent's catch block.
FallbackDecision == [intent |-> "general_plan", days |-> 0]

(***************************************************************************)
(* Inputs the environment may supply.                                      *)
(***************************************************************************)
EnvChoices ==
  [origin : {"app"}, url : {"ok", "missing", "bad"}, token : BOOLEAN]
    \cup {[origin |-> "", url |-> "ok", token |-> TRUE]}

\* The request body.  Strings are their lengths, the labels array is the
\* sequence of the lengths of its entries.

PlainBody(m) ==
  [origin |-> "app", json |-> TRUE, prompt |-> Opt(12), timezone |-> None,
   due |-> None, preferences |-> None, labels |-> NoLabels, priority |-> None,
   maxTasks |-> m]
DefaultBody == PlainBody(None)
FullBody ==
  [origin |-> "none", json |-> TRUE, prompt |-> Opt(1), timezone |-> Opt(3),
   due |-> Opt(3), preferences |-> Opt(1), labels |-> Opt(<<1, 4, 4, 4, 4>>),
   priority |-> Opt(4), maxTasks |-> Opt(MAX_TASKS)]

RequestChoices ==
  { PlainBody(m) : m \in {None, Opt(1), Opt(2)} }
    \cup { FullBody,
           [DefaultBody EXCEPT !.origin = "other"],
           [DefaultBody EXCEPT !.json = FALSE],
           [DefaultBody EXCEPT !.json = FALSE, !.origin = "other"],
           [DefaultBody EXCEPT !.prompt = None],
           [DefaultBody EXCEPT !.prompt = Opt(0)],
           [DefaultBody EXCEPT !.timezone = Opt(2)],
           [DefaultBody EXCEPT !.due = Opt(2)],
           [DefaultBody EXCEPT !.preferences = Opt(0)],
           [DefaultBody EXCEPT !.labels = Opt(<<4, 0>>)],
           [DefaultBody EXCEPT !.labels = Opt(<<1, 1, 1, 1, 1, 1>>)],
           [DefaultBody EXCEPT !.priority = Opt(0)],
           [DefaultBody EXCEPT !.priority = Opt(5)],
           [DefaultBody EXCEPT !.maxTasks = Opt(0)],
           [DefaultBody EXCEPT !.maxTasks = Opt(MAX_TASKS + 1)],
           [FullBody EXCEPT !.maxTasks = Opt(MAX_TASKS + 1)] }
NoInput == [maxTasks |-> 0]
DecisionChoices == [intent : IntentTypes, days : {0, 1}]

CreateTaskTool == Tool("create_task", {"create"})
AddTasksTool == Tool("add-tasks", {"add"})
FindProjectsTool == Tool("find-projects", {"find", "project", "projects"})
FindLabelsTool == Tool("find-labels", {"find", "label", "labels"})
OverviewTool == Tool("get-overview", {"get", "overview", "view"})

CatalogChoices ==
  { <<>>,
    <<OverviewTool>>,
    <<FindProjectsTool, CreateTaskTool, FindLabelsTool>>,
    <<AddTasksTool, FindLabelsTool, CreateTaskTool>>,
    <<FindProjectsTool, AddTasksTool>> }

NoTools == [listed |-> FALSE, tools |-> <<>>]
Listed(tools) == [listed |-> TRUE, tools |-> tools]

Halves == {"projects", "labels"}
OtherHalf(h) == IF h = "projects" THEN "labels" ELSE "projects"
ListOutcomes == {"array", "empty", "malformed", "failed"}

(***************************************************************************)
(* External calls and stream events.                                       *)
(***************************************************************************)
Call(op, half, task) == [op |-> op, half |-> half, task |-> task]
Settled(c, ok) == [op |-> c.op, half |-> c.half, task |-> c.task, ok |-> ok]

Event(type, stage, status, task, plan, tasks) ==
  [type |-> type, stage |-> stage, status |-> status, task |-> task,
   plan |-> plan, tasks |-> tasks, created |-> 0, failed |-> 0]

StatusEvent(stage) == Event("status", stage, "", 0, <<>>, <<>>)
DebugEvent(type) == Event(type, "", "", 0, <<>>, <<>>)
PlanEvent(tasks) == Event("ai.plan", "", "", 0, tasks, <<>>)
TaskEvent(status, task) == Event("todoist.task", "", status, task, <<>>, <<>>)
ErrorEvent == Event("error", "", "", 0, <<>>, <<>>)

TaskResult(task, status) == [planned |-> task, status |-> status]

CountStatus(res, status) == Cardinality({i \in 1..Len(res) : res[i].status = status})

\* Variant: `created` counts every result.
FinalEventCountsAll(res) ==
  [type |-> "final", stage |-> "", status |-> "", task |-> 0, plan |-> <<>>,
   tasks |-> res, created |-> Len(res), failed |-> CountStatus(res, "failed")]

FinalEvent(res) ==
  [type |-> "final", stage |-> "", status |-> "", task |-> 0, plan |-> <<>>,
   tasks |-> res, created |-> CountStatus(res, "created"),
   failed |-> CountStatus(res, "failed")]

SeqToSet(q) == {q[i] : i \in 1..Len(q)}

(***************************************************************************)
(* Initial state: a request has arrived at POST.                           *)
(***************************************************************************)
NoFn == [name |-> ""]

Init ==
  /\ fn = NoFn
  /\ env \in EnvChoices
  /\ request \in RequestChoices
  /\ reply = ""
  /\ input = NoInput
  /\ pc = "request"
  /\ streamState = "none"
  /\ events = <<>>
  /\ client = Null
  /\ availableTools = NoTools
  /\ scenario = NoScenario
  /\ listTool = [h \in Halves |-> "idle"]
  /\ planTasks = <<>>
  /\ toolName = ""
  /\ toolsList = NoTools
  /\ idx = 0
  /\ results = <<>>
  /\ calls = <<>>
  /\ pending = {}
  /\ settled = <<>>
  /\ thrown = FALSE
  /\ uncaught = FALSE

(***************************************************************************)
(* The stream.  send(event) enqueues on the controller; enqueue and close  *)
(* raise a TypeError unless the stream is readable and not yet closed.     *)
(***************************************************************************)
Writable == streamState = "readable"

\* The promise of the async body settles; a rejection reaches the
\* .catch handler, whose controller.close() raises on a finished stream.
Settle(st, esc) ==
  /\ thrown' = FALSE
  /\ IF esc
     THEN IF st = "readable"
          THEN streamState' = "closed" /\ uncaught' = uncaught
          ELSE streamState' = st /\ uncaught' = TRUE
     ELSE streamState' = st /\ uncaught' = uncaught

\* finally { await closeClient(client) }
Finally(st, esc, cl, log) ==
  IF cl # Null
  THEN /\ calls' = Append(log, Call("close", "", 0))
       /\ pending' = {Call("close", "", 0)}
       /\ pc' = "closing"
       /\ streamState' = st
       /\ thrown' = esc
       /\ uncaught' = uncaught
  ELSE /\ calls' = log
       /\ pending' = {}
       /\ pc' = "done"
       /\ Settle(st, esc)

\* Variant: the catch block closes the stream without reporting the error.
CatchWithoutErrorEvent(evs, cl, log) ==
  IF Writable
  THEN /\ events' = evs
       /\ Finally("closed", FALSE, cl, log)
  ELSE /\ events' = evs
       /\ Finally(streamState, TRUE, cl, log)

\* Variant: closeClient sits at the end of the try block, not in a finally.
CatchWithoutClose(evs, cl, log) ==
  IF Writable
  THEN /\ events' = Append(evs, ErrorEvent)
       /\ Finally("closed", FALSE, Null, log)
  ELSE /\ events' = evs
       /\ Finally(streamState, TRUE, Null, log)

\* catch (error) { send({type: "error"}); controller.close() } finally {...}
\* evs are the events on the stream when the exception is caught.
Catch(evs, cl, log) ==
  IF Writable
  THEN /\ events' = Append(evs, ErrorEvent)
       /\ Finally("closed", FALSE, cl, log)
  ELSE /\ events' = evs
       /\ Finally(streamState, TRUE, cl, log)

\* send({type: "final"}); controller.close(), then the finally block.
Final(evs, res, cl, log) ==
  /\ events' = Append(evs, FinalEvent(res))
  /\ Finally("closed", FALSE, cl, log)

\* The body reaches its next await with the calls `issued` in flight.
Suspend(evs, nextpc, log, issued) ==
  /\ events' = evs
  /\ pc' = nextpc
  /\ calls' = log \o issued
  /\ pending' = SeqToSet(issued)
  /\ UNCHANGED <<streamState, thrown, uncaught>>

\* Variant: cancelling the stream aborts the pipeline and its calls in flight.
DisconnectAbortsCalls ==
  /\ pc \notin {"request", "rejected", "start", "done"}
  /\ streamState = "readable"
  /\ streamState' = "cancelled"
  /\ pc' = "done"
  /\ pending' = {}
  /\ UNCHANGED <<fn, request, reply, env, input, events, client, availableTools, scenario, listTool,
                 planTasks, toolName, toolsList, idx, results, calls, settled, thrown,
                 uncaught>>

\* The caller disconnects: the response stream is cancelled.
Disconnect ==
  /\ pc \notin {"request", "rejected", "start", "done"}
  /\ streamState = "readable"
  /\ streamState' = "cancelled"
  /\ UNCHANGED <<fn, request, reply, env, input, pc, events, client, availableTools, scenario, listTool,
                 planTasks, toolName, toolsList, idx, results, calls, pending, settled, thrown,
                 uncaught>>

(***************************************************************************)
(* POST, from start(controller) to the classification call.                *)
(***************************************************************************)
\* createTransport(env): "throw" (ensureUrl), "null" (not configured) or a transport.
createTransport(e) ==
  IF e.url = "missing" THEN "null"
  ELSE IF e.url = "bad" THEN "throw"
  ELSE IF ~e.token THEN "null"
  ELSE "transport"

\* send ai:init, detectPriorityFromPrompt, send intent:detect, await classifyIntent.
ToClassify(evs, cl, log) ==
  IF Writable
  THEN Suspend(evs \o <<StatusEvent("ai:init"), StatusEvent("intent:detect")>>,
               "classify", log, <<Call("ai.intent", "", 0)>>)
  ELSE Catch(evs, cl, log)

\* resolveOrigin(request, env.FRONTEND_ORIGIN): "throw" when nothing is
\* configured, "forbidden" for an Origin header that is not configured, else
\* the origin to answer with.
resolveOrigin(req, e) ==
  IF e.origin = "" THEN "throw"
  ELSE IF req.origin = "none" THEN e.origin
  ELSE IF req.origin # e.origin THEN "forbidden"
  ELSE req.origin

\* Variant: the labels array may hold any number of entries.
requestSchemaAnyLabels(body) ==
  /\ body.json
  /\ body.prompt.present /\ body.prompt.value >= 1
  /\ body.timezone.present => body.timezone.value >= 3
  /\ body.due.present => body.due.value >= 3
  /\ body.preferences.present => body.preferences.value >= 1
  /\ body.labels.present =>
       \A i \in 1..Len(body.labels.value) : body.labels.value[i] >= 1
  /\ body.priority.present => body.priority.value >= 1 /\ body.priority.value <= 4
  /\ body.maxTasks.present =>
       body.maxTasks.value >= MIN_TASKS /\ body.maxTasks.value <= MAX_TASKS

\* requestSchema.safeParse(body).success; parseJson gives null for a body
\* that is not JSON, and null is not an object.
requestSchema(body) ==
  /\ body.json
  /\ body.prompt.present /\ body.prompt.value >= 1
  /\ body.timezone.present => body.timezone.value >= 3
  /\ body.due.present => body.due.value >= 3
  /\ body.preferences.present => body.preferences.value >= 1
  /\ body.labels.present =>
       /\ Len(body.labels.value) <= 5
       /\ \A i \in 1..Len(body.labels.value) : body.labels.value[i] >= 1
  /\ body.priority.present => body.priority.value >= 1 /\ body.priority.value <= 4
  /\ body.maxTasks.present =>
       body.maxTasks.value >= MIN_TASKS /\ body.maxTasks.value <= MAX_TASKS

\* parsed.data: maxTasks defaults to 5.
ParsedData(body) ==
  [maxTasks |-> IF body.maxTasks.present THEN body.maxTasks.value ELSE 5]

\* POST up to the construction of the stream: origin check, parseJson,
\* requestSchema.safeParse, and the early returns.  An accepted request goes
\* on into start(controller) without suspending.
Validate ==
  /\ pc = "request"
  /\ LET origin == resolveOrigin(request, env)
     IN IF origin = "throw"
        THEN /\ pc' = "rejected" /\ reply' = "threw"
             /\ UNCHANGED <<input, streamState>>
        ELSE IF origin = "forbidden"
        THEN /\ pc' = "rejected" /\ reply' = "403"
             /\ UNCHANGED <<input, streamState>>
        ELSE IF ~requestSchema(request)
        THEN /\ pc' = "rejected" /\ reply' = "400"
             /\ UNCHANGED <<input, streamState>>
        ELSE /\ pc' = "start" /\ reply' = "200"
             /\ input' = ParsedData(request)
             /\ streamState' = "readable"
  /\ UNCHANGED <<fn, request, env, events, client, availableTools, scenario, listTool,
                 planTasks, toolName, toolsList, idx, results, calls, pending, settled,
                 thrown, uncaught>>

Start ==
  /\ pc = "start"
  /\ LET t == createTransport(env)
     IN CASE t = "throw" -> client' = Null /\ Catch(events, Null, calls)
          [] t = "null" -> client' = Null /\ ToClassify(events, Null, calls)
          [] OTHER -> /\ client' = "client"
                      /\ Suspend(events, "connect", calls, <<Call("connect", "", 0)>>)
  /\ UNCHANGED <<fn, request, reply, env, input, availableTools, scenario, listTool, planTasks, toolName, toolsList,
                 idx, results, settled>>

ConnectResolve ==
  /\ pc = "connect"
  /\ settled' = Append(settled, Settled(Call("connect", "", 0), TRUE))
  /\ Suspend(events, "listTools", calls, <<Call("listTools", "", 0)>>)
  /\ UNCHANGED <<fn, request, reply, env, input, client, availableTools, scenario, listTool, planTasks,
                 toolName, toolsList, idx, results>>

ConnectThrow ==
  /\ pc = "connect"
  /\ settled' = Append(settled, Settled(Call("connect", "", 0), FALSE))
  /\ Catch(events, client, calls)
  /\ UNCHANGED <<fn, request, reply, env, input, client, availableTools, scenario, listTool, planTasks,
                 toolName, toolsList, idx, results>>

\* client.listTools() resolved: with a catalog, or without a `tools` member.
ListToolsResolve ==
  /\ pc = "listTools"
  /\ \E cat \in {Listed(c) : c \in CatalogChoices} \cup {NoTools} :
       /\ availableTools' = cat
       /\ IF Writable
          THEN ToClassify(IF cat.listed THEN Append(events, DebugEvent("debug.tools"))
                          ELSE events, client, calls)
          ELSE Catch(events, client, calls)
  /\ settled' = Append(settled, Settled(Call("listTools", "", 0), TRUE))
  /\ UNCHANGED <<fn, request, reply, env, input, client, scenario, listTool, planTasks, toolName, toolsList, idx,
                 results>>

\* client.listTools() threw: the inner catch reports debug.error and goes on.
ListToolsThrow ==
  /\ pc = "listTools"
  /\ IF Writable
     THEN ToClassify(Append(events, DebugEvent("debug.error")), client, calls)
     ELSE Catch(events, client, calls)
  /\ settled' = Append(settled, Settled(Call("listTools", "", 0), FALSE))
  /\ UNCHANGED <<fn, request, reply, env, input, client, availableTools, scenario, listTool, planTasks,
                 toolName, toolsList, idx, results>>

(***************************************************************************)
(* Classification, scenario selection and metadata discovery.              *)
(***************************************************************************)
\* fetchTodoistMetadata up to its Promise.all: which halves get a list call.
ListToolPlan(cl, at) ==
  IF cl = Null \/ ~at.listed \/ Len(at.tools) = 0
  THEN [h \in Halves |-> "none"]
  ELSE [h \in Halves |->
          IF resolveListToolConfig(at.tools,
               IF h = "projects" THEN PROJECT_TOOL_ALIASES ELSE LABEL_TOOL_ALIASES).found
          THEN "inflight" ELSE "none"]

\* In the order the calls are made: projects first, labels second.
ListCalls(lt) ==
  (IF lt["projects"] = "inflight" THEN <<Call("callTool.list", "projects", 0)>> ELSE <<>>)
  \o (IF lt["labels"] = "inflight" THEN <<Call("callTool.list", "labels", 0)>> ELSE <<>>)

\* fetchTodoistMetadata after the join (the summaries are mapped, which raises
\* on a null entry), send debug.metadata, the inference helpers, then
\* generatePlan up to its await of the generation call.
AfterMetadata(evs, lt, cl, log) ==
  IF (\E h \in Halves : lt[h] = "malformed") \/ ~Writable
  THEN Catch(evs, cl, log)
  ELSE Suspend(Append(evs, DebugEvent("debug.metadata")), "generate", log,
               <<Call("ai.plan", "", 0)>>)

\* Variant: the intent:classified status is not sent.
AfterClassifySilent(decision) ==
  /\ scenario' = determineScenario(decision, input)
  /\ IF ~Writable
     THEN /\ listTool' = listTool
          /\ Catch(events, client, calls)
     ELSE LET lt == ListToolPlan(client, availableTools)
          IN /\ listTool' = lt
             /\ IF ListCalls(lt) = <<>>
                THEN AfterMetadata(events, lt, client, calls)
                ELSE Suspend(events, "metadata", calls, ListCalls(lt))

\* classifyIntent returned `decision`; determineScenario; send intent:classified;
\* fetchTodoistMetadata.
AfterClassify(decision) ==
  /\ scenario' = determineScenario(decision, input)
  /\ IF ~Writable
     THEN /\ listTool' = listTool
          /\ Catch(events, client, calls)
     ELSE LET evs == Append(events, StatusEvent("intent:classified"))
              lt == ListToolPlan(client, availableTools)
          IN /\ listTool' = lt
             /\ IF ListCalls(lt) = <<>>
                THEN AfterMetadata(evs, lt, client, calls)
                ELSE Suspend(evs, "metadata", calls, ListCalls(lt))

\* The classification call returned a decision that passes intentDecisionSchema.
ClassifyResolve ==
  /\ pc = "classify"
  /\ \E d \in DecisionChoices : AfterClassify(d)
  /\ settled' = Append(settled, Settled(Call("ai.intent", "", 0), TRUE))
  /\ UNCHANGED <<fn, request, reply, env, input, client, availableTools, planTasks, toolName, toolsList, idx, results>>

\* Variant: a failed classification is rethrown.
ClassifyFailFatal ==
  /\ pc = "classify"
  /\ Catch(events, client, calls)
  /\ settled' = Append(settled, Settled(Call("ai.intent", "", 0), FALSE))
  /\ UNCHANGED <<fn, request, reply, env, input, client, availableTools, planTasks, toolName, toolsList, idx, results,
                 scenario, listTool>>

\* The call threw or its payload failed the schema: the fallback decision.
ClassifyFail ==
  /\ pc = "classify"
  /\ AfterClassify(FallbackDecision)
  /\ settled' = Append(settled, Settled(Call("ai.intent", "", 0), FALSE))
  /\ UNCHANGED <<fn, request, reply, env, input, client, availableTools, planTasks, toolName, toolsList, idx, results>>

\* Variant: the first list call to settle ends the wait (a race, not a join).
ListToolSettleRace ==
  /\ pc = "metadata"
  /\ \E h \in Halves, out \in ListOutcomes :
       /\ listTool[h] = "inflight"
       /\ LET lt == [listTool EXCEPT ![h] = out]
          IN /\ listTool' = lt
             /\ settled' = Append(settled,
                             Settled(Call("callTool.list", h, 0), out # "failed"))
             /\ AfterMetadata(events, lt, client, calls)
  /\ UNCHANGED <<fn, request, reply, env, input, client, availableTools, scenario, planTasks, toolName, toolsList,
                 idx, results>>

\* One list call settles: callTodoistListTool returns the extracted array
\* ("array", "empty", or "malformed" for an array holding a null entry) or,
\* when the call threw, [] ("failed").  The last to settle joins Promise.all.
ListToolSettle ==
  /\ pc = "metadata"
  /\ \E h \in Halves, out \in ListOutcomes :
       /\ listTool[h] = "inflight"
       /\ LET lt == [listTool EXCEPT ![h] = out]
          IN /\ listTool' = lt
             /\ settled' = Append(settled,
                             Settled(Call("callTool.list", h, 0), out # "failed"))
             /\ IF lt[OtherHalf(h)] = "inflight"
                THEN /\ pending' = pending \ {Call("callTool.list", h, 0)}
                     /\ UNCHANGED <<events, pc, calls, streamState, thrown, uncaught>>
                ELSE AfterMetadata(events, lt, client, calls)
  /\ UNCHANGED <<fn, request, reply, env, input, client, availableTools, scenario, planTasks, toolName, toolsList,
                 idx, results>>

(***************************************************************************)
(* Plan generation and the sync loop.  A normalized task is identified by  *)
(* its position in the generated plan.                                     *)
(***************************************************************************)
\* Variant: the generated tasks are not cut to scenario.maxTasks.
NormalizedTasksUncut(n, sc) == [i \in 1..n |-> i]

\* plan.tasks.slice(0, scenario.maxTasks).map(normalizeTask) for n generated tasks
NormalizedTasks(n, sc) == [i \in 1..Min(n, sc.maxTasks) |-> i]

\* generatePlan once the generation call returned n tasks: aiPlanSchema.parse
\* wants MIN_TASKS or more, and an empty normalized list is thrown.
generatePlan(n, sc) ==
  IF n < MIN_TASKS THEN [ok |-> FALSE, tasks |-> <<>>]
  ELSE IF Len(NormalizedTasks(n, sc)) = 0 THEN [ok |-> FALSE, tasks |-> <<>>]
  ELSE [ok |-> TRUE, tasks |-> NormalizedTasks(n, sc)]

\* plan.tasks.map(... status: "failed" ...) of POST when there is no client
\* Variant: without a client the tasks are reported created.
UnavailableResultsCreated(tasks) == [i \in 1..Len(tasks) |-> TaskResult(tasks[i], "created")]

UnavailableResults(tasks) == [i \in 1..Len(tasks) |-> TaskResult(tasks[i], "failed")]

\* Variant: the loop sends no pending event.
LoopFromNoPending(evs, res, i, tasks, log) ==
  /\ idx' = i
  /\ results' = res
  /\ IF ~Writable
     THEN Catch(evs, client, log)
     ELSE IF i <= Len(tasks)
          THEN Suspend(evs, "sync", log, <<Call("callTool.create", "", tasks[i])>>)
          ELSE Final(evs, res, client, log)

\* Variant: the call of the following task is issued without awaiting this one.
LoopFromParallel(evs, res, i, tasks, log) ==
  /\ idx' = i
  /\ results' = res
  /\ IF ~Writable
     THEN Catch(evs, client, log)
     ELSE IF i <= Len(tasks)
          THEN Suspend(Append(evs, TaskEvent("pending", tasks[i])), "sync", log,
                       <<Call("callTool.create", "", tasks[i])>>
                       \o (IF i < Len(tasks)
                           THEN <<Call("callTool.create", "", tasks[i + 1])>>
                           ELSE <<>>))
          ELSE Final(evs, res, client, log)

\* Variant: the pending event is written without regard to the caller.
LoopFromIgnoresDisconnect(evs, res, i, tasks, log) ==
  /\ idx' = i
  /\ results' = res
  /\ IF i <= Len(tasks)
     THEN Suspend(IF Writable THEN Append(evs, TaskEvent("pending", tasks[i])) ELSE evs,
                  "sync", log, <<Call("callTool.create", "", tasks[i])>>)
     ELSE IF Writable THEN Final(evs, res, client, log) ELSE Catch(evs, client, log)

\* The head of one iteration of `for (const task of tasks)`, or the return of
\* syncWithTodoist followed by send(final) when the list is exhausted.
LoopFrom(evs, res, i, tasks, log) ==
  /\ idx' = i
  /\ results' = res
  /\ IF ~Writable
     THEN Catch(evs, client, log)
     ELSE IF i <= Len(tasks)
          THEN Suspend(Append(evs, TaskEvent("pending", tasks[i])), "sync", log,
                       <<Call("callTool.create", "", tasks[i])>>)
          ELSE Final(evs, res, client, log)

\* Variant: an unresolved creation tool fails every task instead of the sync.
EnterSyncFailsPerTask(evs, tools, tasks, log) ==
  LET name == resolveToolNameIn(tools)
  IN /\ toolName' = name
     /\ toolsList' = Listed(tools)
     /\ IF name = ""
        THEN /\ idx' = idx
             /\ results' = UnavailableResults(tasks)
             /\ IF Writable
                THEN Final(evs, UnavailableResults(tasks), client, log)
                ELSE Catch(evs, client, log)
        ELSE LoopFrom(evs, <<>>, 1, tasks, log)

\* resolveToolName over the catalog `tools`, then the loop.
EnterSync(evs, tools, tasks, log) ==
  LET name == resolveToolNameIn(tools)
  IN /\ toolName' = name
     /\ toolsList' = Listed(tools)
     /\ IF name = ""
        THEN /\ UNCHANGED <<idx, results>>
             /\ Catch(evs, client, log)
        ELSE LoopFrom(evs, <<>>, 1, tasks, log)

\* The generation call returned a plan of n tasks that passes aiPlanSchema.
GenerateResolve ==
  /\ pc = "generate"
  /\ \E n \in 1..MaxGen :
       LET tasks == NormalizedTasks(n, scenario)
           evs == events \o <<DebugEvent("debug.inference"), PlanEvent(tasks)>>
       IN /\ planTasks' = tasks
          /\ IF ~Writable
             THEN /\ UNCHANGED <<toolName, toolsList, idx, results>>
                  /\ Catch(events, client, calls)
             ELSE IF client = Null
             THEN /\ UNCHANGED <<toolName, toolsList, idx>>
                  /\ results' = UnavailableResults(tasks)
                  /\ Final(evs, UnavailableResults(tasks), client, calls)
             ELSE IF availableTools.listed
             THEN EnterSync(evs, availableTools.tools, tasks, calls)
             ELSE /\ UNCHANGED <<toolName, toolsList, idx, results>>
                  /\ Suspend(evs, "resolveTool", calls, <<Call("listTools", "", 0)>>)
  /\ settled' = Append(settled, Settled(Call("ai.plan", "", 0), TRUE))
  /\ UNCHANGED <<fn, request, reply, env, input, client, availableTools, scenario, listTool>>

\* Variant: a failed generation degrades to an empty plan.
GenerateThrowDegrades ==
  /\ pc = "generate"
  /\ IF Writable
     THEN Final(Append(events, PlanEvent(<<>>)), <<>>, client, calls)
     ELSE Catch(events, client, calls)
  /\ settled' = Append(settled, Settled(Call("ai.plan", "", 0), FALSE))
  /\ UNCHANGED <<fn, request, reply, env, input, client, availableTools, scenario, listTool, planTasks,
                 toolName, toolsList, idx, results>>

\* generatePlan threw: the generation call threw, its payload failed
\* aiPlanSchema.parse (an empty task list included), or no task remained.
GenerateThrow ==
  /\ pc = "generate"
  /\ Catch(events, client, calls)
  /\ settled' = Append(settled, Settled(Call("ai.plan", "", 0), FALSE))
  /\ UNCHANGED <<fn, request, reply, env, input, client, availableTools, scenario, listTool, planTasks,
                 toolName, toolsList, idx, results>>

\* resolveToolName had no catalog and listed the tools itself.
ResolveToolResolve ==
  /\ pc = "resolveTool"
  /\ \E cat \in CatalogChoices : EnterSync(events, cat, planTasks, calls)
  /\ settled' = Append(settled, Settled(Call("listTools", "", 0), TRUE))
  /\ UNCHANGED <<fn, request, reply, env, input, client, availableTools, scenario, listTool, planTasks>>

ResolveToolThrow ==
  /\ pc = "resolveTool"
  /\ Catch(events, client, calls)
  /\ settled' = Append(settled, Settled(Call("listTools", "", 0), FALSE))
  /\ UNCHANGED <<fn, request, reply, env, input, client, availableTools, scenario, listTool, planTasks,
                 toolName, toolsList, idx, results>>

\* The creation call of task idx returned: push "created", send it, go on.
\* A send that raises is caught by the same per-task catch block.
CreateResolve ==
  /\ pc = "sync"
  /\ LET t == planTasks[idx]
         res == Append(results, TaskResult(t, "created"))
     IN IF Writable
        THEN LoopFrom(Append(events, TaskEvent("created", t)), res, idx + 1, planTasks,
                      calls)
        ELSE /\ idx' = idx
             /\ results' = Append(res, TaskResult(t, "failed"))
             /\ Catch(events, client, calls)
  /\ settled' = Append(settled, Settled(Call("callTool.create", "", planTasks[idx]), TRUE))
  /\ UNCHANGED <<fn, request, reply, env, input, client, availableTools, scenario, listTool, planTasks,
                 toolName, toolsList>>

\* Variant: a throwing creation call aborts the sync.
CreateThrowAborts ==
  /\ pc = "sync"
  /\ Catch(events, client, calls)
  /\ settled' = Append(settled, Settled(Call("callTool.create", "", planTasks[idx]), FALSE))
  /\ UNCHANGED <<fn, request, reply, env, input, client, availableTools, scenario, listTool, planTasks,
                 toolName, toolsList, idx, results>>

\* Variant: the per-task catch block reports the failure but records no result.
CreateThrowDropsResult ==
  /\ pc = "sync"
  /\ LET t == planTasks[idx]
     IN IF Writable
        THEN LoopFrom(Append(events, TaskEvent("failed", t)), results, idx + 1,
                      planTasks, calls)
        ELSE /\ UNCHANGED <<idx, results>>
             /\ Catch(events, client, calls)
  /\ settled' = Append(settled, Settled(Call("callTool.create", "", planTasks[idx]), FALSE))
  /\ UNCHANGED <<fn, request, reply, env, input, client, availableTools, scenario, listTool, planTasks,
                 toolName, toolsList>>

\* Variant: a throwing creation call is issued once more before it is given up.
CreateThrowRetries ==
  /\ pc = "sync"
  /\ LET t == planTasks[idx]
         res == Append(results, TaskResult(t, "failed"))
         tries == Cardinality({k \in 1..Len(calls) :
                     calls[k].op = "callTool.create" /\ calls[k].task = t})
     IN IF tries < 2
        THEN /\ UNCHANGED <<idx, results>>
             /\ Suspend(events, "sync", calls, <<Call("callTool.create", "", t)>>)
        ELSE IF Writable
        THEN LoopFrom(Append(events, TaskEvent("failed", t)), res, idx + 1, planTasks,
                      calls)
        ELSE /\ idx' = idx
             /\ results' = res
             /\ Catch(events, client, calls)
  /\ settled' = Append(settled, Settled(Call("callTool.create", "", planTasks[idx]), FALSE))
  /\ UNCHANGED <<fn, request, reply, env, input, client, availableTools, scenario, listTool, planTasks,
                 toolName, toolsList>>

\* The creation call of task idx threw: push "failed", send it, go on.
CreateThrow ==
  /\ pc = "sync"
  /\ LET t == planTasks[idx]
         res == Append(results, TaskResult(t, "failed"))
     IN IF Writable
        THEN LoopFrom(Append(events, TaskEvent("failed", t)), res, idx + 1, planTasks,
                      calls)
        ELSE /\ idx' = idx
             /\ results' = res
             /\ Catch(events, client, calls)
  /\ settled' = Append(settled, Settled(Call("callTool.create", "", planTasks[idx]), FALSE))
  /\ UNCHANGED <<fn, request, reply, env, input, client, availableTools, scenario, listTool, planTasks,
                 toolName, toolsList>>

(***************************************************************************)
(* closeClient: client.close() settles; a throw is caught and logged.      *)
(***************************************************************************)
\* Variant: a failed close is reported on the stream.
CloseSettleReportsFailure(ok) ==
  /\ pc = "closing"
  /\ pc' = "done"
  /\ pending' = {}
  /\ settled' = Append(settled, Settled(Call("close", "", 0), ok))
  /\ events' = IF ok THEN events ELSE Append(events, ErrorEvent)
  /\ Settle(streamState, thrown)
  /\ UNCHANGED <<fn, request, reply, env, input, client, availableTools, scenario, listTool,
                 planTasks, toolName, toolsList, idx, results, calls>>

CloseSettle(ok) ==
  /\ pc = "closing"
  /\ pc' = "done"
  /\ pending' = {}
  /\ settled' = Append(settled, Settled(Call("close", "", 0), ok))
  /\ Settle(streamState, thrown)
  /\ UNCHANGED <<fn, request, reply, env, input, events, client, availableTools, scenario, listTool,
                 planTasks, toolName, toolsList, idx, results, calls>>

CloseResolve == CloseSettle(TRUE)

CloseThrow == CloseSettle(FALSE)

Next ==
  \/ Validate
  \/ Start
  \/ ConnectResolve
  \/ ConnectThrow
  \/ ListToolsResolve
  \/ ListToolsThrow
  \/ ClassifyResolve
  \/ ClassifyFail
  \/ ListToolSettle
  \/ GenerateResolve
  \/ GenerateThrow
  \/ ResolveToolResolve
  \/ ResolveToolThrow
  \/ CreateResolve
  \/ CreateThrow
  \/ CloseResolve
  \/ CloseThrow
  \/ Disconnect

Spec == Init /\ [][Next]_vars

\* The external service answers or fails every creation call it was sent, and
\* the awaiting body resumes.
SpecLive == Spec /\ WF_vars(CreateResolve \/ CreateThrow)

(***************************************************************************)
(* The pure helpers on their own: a helper is applied once to an input     *)
(* drawn from a bounded set while the pipeline is at rest.                 *)
(***************************************************************************)
pvars == <<request, reply, env, input, pc, streamState, events, client,
           availableTools, scenario, listTool, planTasks, toolName, toolsList, idx,
           results, calls, pending, settled, thrown, uncaught>>

AtRest(f) ==
  /\ fn = f
  /\ env = [origin |-> "app", url |-> "ok", token |-> TRUE]
  /\ request = DefaultBody
  /\ reply = ""
  /\ input = NoInput
  /\ pc = "fn"
  /\ streamState = "none"
  /\ events = <<>>
  /\ client = Null
  /\ availableTools = NoTools
  /\ scenario = NoScenario
  /\ listTool = [h \in Halves |-> "idle"]
  /\ planTasks = <<>>
  /\ toolName = ""
  /\ toolsList = NoTools
  /\ idx = 0
  /\ results = <<>>
  /\ calls = <<>>
  /\ pending = {}
  /\ settled = <<>>
  /\ thrown = FALSE
  /\ uncaught = FALSE

\* All catalogs of at most n tools drawn from `tools`.
Catalogs(tools, n) == UNION {[1..k -> tools] : k \in 0..n}

\* resolveToolName given a catalog: the preferred names and one other tool.
CreateToolChoices ==
  {Tool(PreferredCreateTools[k], {}) : k \in 1..Len(PreferredCreateTools)}
    \cup {OverviewTool}

InitResolveToolName ==
  \/ Init
  \/ \E c \in Catalogs(CreateToolChoices, MaxCatalog) :
       AtRest([name |-> "resolveToolName", tools |-> c, done |-> FALSE, out |-> ""])

ApplyResolveToolName ==
  /\ pc = "fn" /\ fn.name = "resolveToolName" /\ ~fn.done
  /\ fn' = [fn EXCEPT !.done = TRUE, !.out = resolveToolNameIn(fn.tools)]
  /\ UNCHANGED pvars

NextResolveToolName ==
  \/ Next
  \/ ApplyResolveToolName

SpecResolveToolName == InitResolveToolName /\ [][NextResolveToolName]_vars

\* resolveListToolConfig given a catalog and an alias table.  Each tool is
\* its name and the keywords its "name description" text contains.
ListToolChoices ==
  { Tool("todoist_projects", {"project", "projects"}),
    Tool("todoist.projects.search", {"project", "projects", "search"}),
    FindProjectsTool,
    Tool("list-projects", {"list", "project", "projects"}),
    Tool("update-project", {"project", "update"}),
    Tool("todoist_labels", {"label", "labels"}),
    FindLabelsTool,
    Tool("browse-tags", {"browse", "tag", "tags"}),
    OverviewTool }

AliasTable(half) == IF half = "projects" THEN PROJECT_TOOL_ALIASES ELSE LABEL_TOOL_ALIASES

InitResolveListToolConfig ==
  \E c \in Catalogs(ListToolChoices, MaxCatalog), h \in Halves :
    AtRest([name |-> "resolveListToolConfig", tools |-> c, half |-> h,
            done |-> FALSE, out |-> NoListTool])

ApplyResolveListToolConfig ==
  /\ pc = "fn" /\ fn.name = "resolveListToolConfig" /\ ~fn.done
  /\ fn' = [fn EXCEPT !.done = TRUE,
                      !.out = resolveListToolConfig(fn.tools, AliasTable(fn.half))]
  /\ UNCHANGED pvars

SpecResolveListToolConfig ==
  InitResolveListToolConfig /\ [][ApplyResolveListToolConfig]_vars

\* extractArrayPayload given a response and the configuration of a resolved
\* list tool.  Payloads nest objects of one member up to MaxNest deep.
EnvelopeKeyChoices ==
  {DEFAULT_COLLECTION_KEYS[k] : k \in 1..Len(DEFAULT_COLLECTION_KEYS)} \cup {"tasks"}

RECURSIVE Payloads(_)
Payloads(depth) ==
  IF depth = 0 THEN {JsonArray(2), JsonString, JsonNull}
  ELSE Payloads(depth - 1)
         \cup {JsonObject(<<Member(k, v)>>) : k \in EnvelopeKeyChoices, v \in Payloads(depth - 1)}
         \cup {JsonObject(<<Member("tasks", JsonObject(<<Member("data", JsonString)>>)),
                            Member(k, JsonArray(2))>>) : k \in EnvelopeKeyChoices}

ResponseChoices ==
  [channel : {"structuredContent", "json", "text"}, parses : {TRUE},
   payload : Payloads(MaxNest)]
    \cup [channel : {"text", "none"}, parses : {FALSE}, payload : {JsonObject(<<>>)}]

\* What resolveListToolConfig can return: a tool under any rule of a table.
ListToolConfigChoices ==
  {[found |-> TRUE, name |-> "tool", hasArgs |-> AliasTable(h)[r].hasArgs,
    hasKeys |-> AliasTable(h)[r].hasKeys, resultKeys |-> AliasTable(h)[r].resultKeys] :
     h \in Halves, r \in 1..4}

\* The response that carries payload on the given channel.
Delivered(d) ==
  CASE d.channel = "structuredContent" -> Response(d.payload, Undefined, FALSE, <<>>)
    [] d.channel = "json" ->
         Response(Undefined, Undefined, TRUE, <<Block("json", "", d.payload, NoText)>>)
    [] d.channel = "text" ->
         Response(Undefined, Undefined, TRUE,
                  <<Block("text", "", Undefined,
                          Text("string", FALSE, IF d.parses THEN d.payload ELSE Undefined))>>)
    [] OTHER -> Response(Undefined, Undefined, FALSE, <<>>)

InitExtractArrayPayload ==
  \E r \in ResponseChoices, c \in ListToolConfigChoices :
    AtRest([name |-> "extractArrayPayload", response |-> Delivered(r),
            parses |-> r.parses, payload |-> r.payload, config |-> c,
            done |-> FALSE, out |-> Undefined])

ApplyExtractArrayPayload ==
  /\ pc = "fn" /\ fn.name = "extractArrayPayload" /\ ~fn.done
  /\ fn' = [fn EXCEPT !.done = TRUE,
                      !.out = extractArrayPayload(fn.response, fn.config)]
  /\ UNCHANGED pvars

SpecExtractArrayPayload ==
  InitExtractArrayPayload /\ [][ApplyExtractArrayPayload]_vars

\* determineScenario and generatePlan given any decision that passes
\* intentDecisionSchema (days 1..7 or absent), any validated maxTasks and a
\* generated plan of n tasks; the pipeline runs beside them.
InitGeneratePlan ==
  \/ Init
  \/ \E d \in [intent : IntentTypes, days : 0..7], m \in MIN_TASKS..MAX_TASKS,
        n \in 0..MaxPlan :
       AtRest([name |-> "generatePlan", decision |-> d, input |-> [maxTasks |-> m],
               n |-> n, done |-> FALSE, scenario |-> NoScenario, ok |-> FALSE,
               tasks |-> <<>>])

ApplyGeneratePlan ==
  /\ pc = "fn" /\ fn.name = "generatePlan" /\ ~fn.done
  /\ LET sc == determineScenario(fn.decision, fn.input)
         plan == generatePlan(fn.n, sc)
     IN fn' = [fn EXCEPT !.done = TRUE, !.scenario = sc, !.ok = plan.ok,
                         !.tasks = plan.tasks]
  /\ UNCHANGED pvars

NextGeneratePlan ==
  \/ Next
  \/ ApplyGeneratePlan

SpecGeneratePlan == InitGeneratePlan /\ [][NextGeneratePlan]_vars

\* normalizeTask and toTodoistArgs given a generated task, the request's due
\* hint, a project catalog and the project inferred from the prompt (null
\* or a catalog project that is not the inbox); the pipeline runs beside them.
ProjectCatalogChoices ==
  { <<>>,
    <<ProjectSummary("p1", "Work", FALSE)>>,
    <<ProjectSummary("p0", "Inbox", TRUE), ProjectSummary("p1", "Work", FALSE),
      ProjectSummary("p2", "Home", FALSE)>>,
    <<ProjectSummary("p2", "Home", FALSE), ProjectSummary("p3", "WORK", FALSE),
      ProjectSummary("p1", "Work", FALSE)>> }

InferredChoices(projects) ==
  {NoInferred} \cup {Inferred(projects[i]) : i \in {j \in 1..Len(projects) : ~projects[j].isInbox}}

TaskDueChoices ==
  {NoDue} \cup
  {Due(TRUE, dt, d, s) : dt \in {NoString, Opt("2026-01-05T09:00:00Z")},
                         d \in {NoString, Opt("2026-01-05")},
                         s \in {NoString, Opt(""), Opt("tomorrow")}}

GeneratedTaskChoices ==
  [projectId : {NoString, Opt(""), Opt("p1"), Opt("p9")},
   project : {NoString, Opt(""), Opt("work"), Opt(" Work "), Opt("Garden")},
   due : TaskDueChoices]

NoArgs == [projectId |-> NoString, project_id |-> NoString, dueDatetime |-> NoString,
           dueDate |-> NoString, dueString |-> NoString]

InitCreationArgs ==
  \/ Init
  \/ \E t \in GeneratedTaskChoices, d \in {NoString, Opt("today")},
        ps \in ProjectCatalogChoices :
       \E inf \in InferredChoices(ps) :
         AtRest([name |-> "toTodoistArgs", task |-> t, body |-> [due |-> d],
                 projects |-> ps, inferred |-> inf, done |-> FALSE,
                 normalized |-> [projectId |-> NoString, projectName |-> NoString,
                                 due |-> NoDue],
                 args |-> NoArgs])

ApplyCreationArgs ==
  /\ pc = "fn" /\ fn.name = "toTodoistArgs" /\ ~fn.done
  /\ LET normalized == normalizeTask(fn.task, fn.body, fn.projects, fn.inferred)
     IN fn' = [fn EXCEPT !.done = TRUE, !.normalized = normalized,
                         !.args = toTodoistArgs(normalized, fn.body)]
  /\ UNCHANGED pvars

NextCreationArgs ==
  \/ Next
  \/ ApplyCreationArgs

SpecCreationArgs == InitCreationArgs /\ [][NextCreationArgs]_vars

\* detectPriorityFromPrompt given a prompt of at most MaxCues words.
WordChoices ==
  {Word(k, d, u) : k \in {"p", "priority"}, d \in 0..5, u \in BOOLEAN}
    \cup {Word("zh", d, FALSE) : d \in 0..5}
    \cup {Word("glued", 2, FALSE), Word("word", 0, FALSE)}

PromptChoices == UNION {[1..k -> WordChoices] : k \in 0..MaxCues}

InitDetectPriority ==
  \E p \in PromptChoices :
    AtRest([name |-> "detectPriorityFromPrompt", prompt |-> p, done |-> FALSE,
            out |-> None])

ApplyDetectPriority ==
  /\ pc = "fn" /\ fn.name = "detectPriorityFromPrompt" /\ ~fn.done
  /\ fn' = [fn EXCEPT !.done = TRUE, !.out = detectPriorityFromPrompt(fn.prompt)]
  /\ UNCHANGED pvars

SpecDetectPriority == InitDetectPriority /\ [][ApplyDetectPriority]_vars

\* The priority of normalizeTask given the three sources it draws on.
PriorityChoices == {None} \cup {Opt(p) : p \in 1..4}

InitNormalizePriority ==
  \E t \in PriorityChoices, h \in PriorityChoices, r \in PriorityChoices :
    AtRest([name |-> "normalizePriority", task |-> t, hint |-> h, input |-> r,
            done |-> FALSE, out |-> None])

ApplyNormalizePriority ==
  /\ pc = "fn" /\ fn.name = "normalizePriority" /\ ~fn.done
  /\ fn' = [fn EXCEPT !.done = TRUE,
                       !.out = normalizePriority(fn.task, fn.hint, fn.input)]
  /\ UNCHANGED pvars

SpecNormalizePriority == InitNormalizePriority /\ [][ApplyNormalizePriority]_vars

\* normalizeLabels given a task's labels, the request's labels, a label
\* catalog and the catalog names the prompt mentions; then given its own
\* result as the task's labels.
LabelStrings == {"Urgent", "urgent", " Urgent ", " ", "Errand"}

LabelListChoices ==
  {NoLabels} \cup {Opt(l) : l \in UNION {[1..k -> LabelStrings] : k \in 0..MaxLabels}}

LabelCatalogChoices ==
  { <<>>,
    <<"Urgent", "Errand">>,
    <<"urgent", "Urgent">>,
    <<"alpha", "beta", "gamma", "delta", "URGENT", "Errand", "Home">> }

MentionChoices(catalog) ==
  LET names == {toLowerCase(catalog[i]) : i \in 1..Len(catalog)}
  IN IF Len(catalog) <= 2 THEN SUBSET names ELSE {{}, names \ {"gamma"}, names}

InitNormalizeLabels ==
  \E t \in LabelListChoices, r \in LabelListChoices, c \in LabelCatalogChoices :
    \E m \in MentionChoices(c) :
      AtRest([name |-> "normalizeLabels", task |-> t, input |-> r, catalog |-> c,
              inferred |-> inferLabelsFromPrompt(m, c),
              passes |-> 0, out |-> NoLabels, again |-> NoLabels])

ApplyNormalizeLabels ==
  /\ pc = "fn" /\ fn.name = "normalizeLabels" /\ fn.passes = 0
  /\ fn' = [fn EXCEPT !.passes = 1,
                       !.out = normalizeLabels(fn.task, fn.input, fn.catalog, fn.inferred)]
  /\ UNCHANGED pvars

ApplyNormalizeLabelsAgain ==
  /\ pc = "fn" /\ fn.name = "normalizeLabels" /\ fn.passes = 1
  /\ fn' = [fn EXCEPT !.passes = 2,
                       !.again = normalizeLabels(fn.out, fn.input, fn.catalog, fn.inferred)]
  /\ UNCHANGED pvars

NextNormalizeLabels == ApplyNormalizeLabels \/ ApplyNormalizeLabelsAgain

SpecNormalizeLabels == InitNormalizeLabels /\ [][NextNormalizeLabels]_vars

\* The arguments of a creation call given the resolved tool and a
\* normalized task.
NormalizedTaskChoices ==
  [priority : PriorityChoices,
   projectId : {NoString, Opt("p1")},
   projectName : {NoString},
   due : {NoDue, Due(TRUE, NoString, Opt("2026-01-05"), NoString)}]

InitCallArguments ==
  \E k \in 1..Len(PreferredCreateTools), t \in NormalizedTaskChoices,
     d \in {NoString, Opt("today")} :
    AtRest([name |-> "callArguments", toolName |-> PreferredCreateTools[k], task |-> t,
            body |-> [due |-> d], done |-> FALSE, payload |-> [tasks |-> <<>>]])

ApplyCallArguments ==
  /\ pc = "fn" /\ fn.name = "callArguments" /\ ~fn.done
  /\ fn' = [fn EXCEPT !.done = TRUE,
                       !.payload = callArguments(fn.toolName, fn.task, fn.body)]
  /\ UNCHANGED pvars

SpecCallArguments == InitCallArguments /\ [][ApplyCallArguments]_vars

\* parseToolJson, parseTodoistResponse and the result recorded for a returned
\* creation call, given a response with or without structured content and
\* with up to MaxBlocks content blocks; the pipeline runs beside them.
IdPayload(key) == JsonObject(<<Member(key, JsonString)>>)

TextChoices ==
  { NoText, EmptyText,
    Text("string", FALSE, Undefined),
    Text("string", FALSE, IdPayload("uuid")),
    Text("string", TRUE, IdPayload("uuid")) }

BlockChoices ==
  {Block("json", "", j, NoText) : j \in {Undefined, IdPayload("task_id")}}
    \cup {Block("text", m, Undefined, t) : m \in {"", "application/json"}, t \in TextChoices}
    \cup {Block("image", "", Undefined, NoText)}

ToolResponseChoices ==
  {Response(s[1], s[2], c # <<>> \/ h, c) :
     s \in {<<Undefined, Undefined>>, <<IdPayload("id"), Undefined>>,
            <<Undefined, IdPayload("id")>>, <<JsonNull, Undefined>>},
     h \in BOOLEAN,
     c \in UNION {[1..k -> BlockChoices] : k \in 0..MaxBlocks}}

InitParseToolJson ==
  \/ Init
  \/ \E r \in ToolResponseChoices :
       AtRest([name |-> "parseToolJson", response |-> r, done |-> FALSE,
               out |-> Undefined, parsed |-> NoParsed,
               result |-> [planned |-> 1, status |-> "", todoistId |-> Undefined]])

ApplyParseToolJson ==
  /\ pc = "fn" /\ fn.name = "parseToolJson" /\ ~fn.done
  /\ fn' = [fn EXCEPT !.done = TRUE, !.out = parseToolJson(fn.response),
                       !.parsed = parseTodoistResponse(fn.response),
                       !.result = createdResult(1, fn.response)]
  /\ UNCHANGED pvars

NextParseToolJson ==
  \/ Next
  \/ ApplyParseToolJson

SpecParseToolJson == InitParseToolJson /\ [][NextParseToolJson]_vars

\* matchesListTool, and the heuristic rule of an alias table, given a tool
\* descriptor; the catalog the rule searches holds the descriptor and then
\* a plain list tool of each half.
NameChoices == {"find-labels", "Find-Projects", "update-label", "tags", "helper"}
DescriptionWordChoices == {"List", "labels", "project", "Settings", "overview", "address", "helper"}

DescriptorChoices ==
  {Descriptor(n, d) :
     n \in NameChoices,
     d \in {NoDescription} \cup
           {Opt(w) : w \in {s \in SUBSET DescriptionWordChoices : Cardinality(s) <= MaxWords}}}

HeuristicCatalog(descriptor) ==
  <<ToolOf(descriptor), Tool("list-projects", {"list", "project", "projects"}),
    Tool("browse-tags", {"browse", "tag", "tags"})>>

InitMatchesListTool ==
  \E d \in DescriptorChoices, h \in Halves :
    AtRest([name |-> "matchesListTool", descriptor |-> d, half |-> h, done |-> FALSE,
            out |-> FALSE, selected |-> 0])

ApplyMatchesListTool ==
  /\ pc = "fn" /\ fn.name = "matchesListTool" /\ ~fn.done
  /\ LET rule == AliasTable(fn.half)[4]
     IN fn' = [fn EXCEPT !.done = TRUE,
                         !.out = matchesListTool(ToolOf(fn.descriptor), rule.target),
                         !.selected = AliasFind(HeuristicCatalog(fn.descriptor), rule)]
  /\ UNCHANGED pvars

SpecMatchesListTool == InitMatchesListTool /\ [][ApplyMatchesListTool]_vars

(***************************************************************************)
(* mapPriorityCueToApi followed by mapApiPriorityToUiFlag, and             *)
(* mapApiPriorityToUiFlag on its own, given a cue digit and a number.      *)
(***************************************************************************)
CueChoices == 0..MaxPriorityInput
NumberChoices == {Num(n) : n \in (0 - MaxPriorityInput)..MaxPriorityInput} \cup {NaN}

InitPriorityFlag ==
  \E c \in CueChoices, n \in NumberChoices :
    AtRest([name |-> "mapApiPriorityToUiFlag", cue |-> c, number |-> n, done |-> FALSE,
            api |-> None, cueFlag |-> "", flag |-> ""])

ApplyPriorityFlag ==
  /\ pc = "fn" /\ fn.name = "mapApiPriorityToUiFlag" /\ ~fn.done
  /\ LET api == mapPriorityCueToApi(fn.cue)
     IN fn' = [fn EXCEPT !.done = TRUE, !.api = api,
                         !.cueFlag = IF api.present
                                     THEN mapApiPriorityToUiFlag(Num(api.value))
                                     ELSE "",
                         !.flag = mapApiPriorityToUiFlag(fn.number)]
  /\ UNCHANGED pvars

SpecPriorityFlag == InitPriorityFlag /\ [][ApplyPriorityFlag]_vars

(***************************************************************************)
(* The browser client (page.tsx).  fn holds the component's state: the     *)
(* isStreaming flag, abortControllerRef (0 for null, else the number of    *)
(* the request whose controller it holds), every /plan request started so  *)
(* far and the voice capture.  A request is "fetching" while fetch is      *)
(* awaited, "reading" while reader.read() is awaited, "aborted" once its   *)
(* signal has fired and the rejection has not been handled yet, and        *)
(* "settled" after its finally block.  The rejection of an aborted         *)
(* request is handled as soon as the running handler returns, before any   *)
(* other input.                                                            *)
(***************************************************************************)
InFlight == {"fetching", "reading"}

\* abortControllerRef.current?.abort()
abortCurrent(c) ==
  IF c.abortControllerRef # 0 /\ c.requests[c.abortControllerRef] \in InFlight
  THEN [c EXCEPT !.requests[c.abortControllerRef] = "aborted"]
  ELSE c

\* The finally block of handleSubmit for request r.
cleanup(c, r) ==
  [c EXCEPT !.requests[r] = "settled", !.abortControllerRef = 0, !.isStreaming = FALSE]

\* handleSubmit up to its first await; `valid` tells whether buildPayload
\* returns (the prompt is not blank).
handleSubmit(c, valid) ==
  LET a == abortCurrent(c)
      r == c.submits + 1
  IN IF ~valid THEN a
     ELSE [a EXCEPT !.isStreaming = TRUE, !.abortControllerRef = r,
                    !.requests[r] = "fetching", !.submits = r]

handleCancel(c) ==
  [abortCurrent(c) EXCEPT !.abortControllerRef = 0, !.isStreaming = FALSE]

NoCleanupDue == \A r \in 1..MaxSubmits : fn.requests[r] # "aborted"
ClientIdle == pc = "fn" /\ fn.name = "client" /\ NoCleanupDue

InitClient ==
  AtRest([name |-> "client", isStreaming |-> FALSE, abortControllerRef |-> 0,
          requests |-> [r \in 1..MaxSubmits |-> "unsent"], submits |-> 0,
          voice |-> "idle"])

\* The submit button, enabled while isStreaming is false.
SubmitForm ==
  /\ ClientIdle /\ ~fn.isStreaming /\ fn.submits < MaxSubmits
  /\ \E valid \in BOOLEAN : fn' = handleSubmit(fn, valid)
  /\ UNCHANGED pvars

\* The cancel button, enabled while isStreaming is true.
Cancel ==
  /\ ClientIdle /\ fn.isStreaming
  /\ fn' = handleCancel(fn)
  /\ UNCHANGED pvars

\* handleVoiceButton starts a recording unless a plan is streaming.
StartRecording ==
  /\ ClientIdle /\ ~fn.isStreaming /\ fn.voice = "idle"
  /\ fn' = [fn EXCEPT !.voice = "recording"]
  /\ UNCHANGED pvars

\* The recording is stopped, by the button or by the timeout, and uploaded.
StopRecording ==
  /\ ClientIdle /\ fn.voice = "recording"
  /\ fn' = [fn EXCEPT !.voice = "transcribing"]
  /\ UNCHANGED pvars

\* transcribeAudio fails or the transcript is blank: nothing is submitted.
TranscribeFails ==
  /\ ClientIdle /\ fn.voice = "transcribing"
  /\ fn' = [fn EXCEPT !.voice = "idle"]
  /\ UNCHANGED pvars

\* applyTranscriptAndSubmit: formRef.current?.requestSubmit() runs
\* handleSubmit with the transcript as the prompt.
TranscriptSubmits ==
  /\ ClientIdle /\ fn.voice = "transcribing" /\ fn.submits < MaxSubmits
  /\ fn' = [handleSubmit(fn, TRUE) EXCEPT !.voice = "idle"]
  /\ UNCHANGED pvars

\* fetch resolves with a stream: the reader loop begins.
FetchResolves ==
  /\ ClientIdle
  /\ \E r \in 1..MaxSubmits :
       /\ fn.requests[r] = "fetching"
       /\ fn' = [fn EXCEPT !.requests[r] = "reading"]
  /\ UNCHANGED pvars

\* fetch rejects, or resolves without a stream: catch, then finally.
FetchFails ==
  /\ ClientIdle
  /\ \E r \in 1..MaxSubmits :
       /\ fn.requests[r] = "fetching"
       /\ fn' = cleanup(fn, r)
  /\ UNCHANGED pvars

\* reader.read() reports done or rejects: the loop ends, then finally.
ReadEnds ==
  /\ ClientIdle
  /\ \E r \in 1..MaxSubmits :
       /\ fn.requests[r] = "reading"
       /\ fn' = cleanup(fn, r)
  /\ UNCHANGED pvars

\* The AbortError of an aborted request is caught: return, then finally.
AbortedCleanup ==
  /\ pc = "fn" /\ fn.name = "client"
  /\ \E r \in 1..MaxSubmits :
       /\ fn.requests[r] = "aborted"
       /\ fn' = cleanup(fn, r)
  /\ UNCHANGED pvars

NextClient ==
  \/ SubmitForm
  \/ Cancel
  \/ StartRecording
  \/ StopRecording
  \/ TranscribeFails
  \/ TranscriptSubmits
  \/ FetchResolves
  \/ FetchFails
  \/ ReadEnds
  \/ AbortedCleanup

SpecClient == InitClient /\ [][NextClient]_vars

(***************************************************************************)
(* The client's NDJSON reader (page.tsx).  The response is a sequence of   *)
(* bytes: "a" is a one-byte character, " " a blank, "nl" the newline, and  *)
(* "e1" "e2" the two bytes of the character "e".  reader.read() hands the  *)
(* stream over in chunks of any size; a chunk may end between "e1" and     *)
(* "e2".  A text is a sequence of characters.                              *)
(***************************************************************************)
Bytes == {"a", " ", "nl", "e1", "e2"}

RECURSIVE WellFormed(_, _)
WellFormed(bytes, i) ==
  IF i > Len(bytes) THEN TRUE
  ELSE IF bytes[i] = "e1"
       THEN i < Len(bytes) /\ bytes[i + 1] = "e2" /\ WellFormed(bytes, i + 2)
       ELSE bytes[i] # "e2" /\ WellFormed(bytes, i + 1)

\* The streams the server can send: encoded text.
StreamChoices ==
  {s \in UNION {[1..n -> Bytes] : n \in 0..MaxStream} : WellFormed(s, 1)}

\* decoder.decode(value, { stream: true }): an incomplete character at the
\* end of the chunk is held back (carry) for the following call.
RECURSIVE decodeFrom(_, _, _)
decodeFrom(value, i, carry) ==
  IF i > Len(value) THEN [text |-> <<>>, carry |-> carry]
  ELSE IF value[i] = "e1" THEN decodeFrom(value, i + 1, TRUE)
  ELSE LET rest == decodeFrom(value, i + 1, FALSE)
       IN [rest EXCEPT !.text = <<IF value[i] = "e2" THEN "e" ELSE value[i]>> \o rest.text]

decode(value, carry) == decodeFrom(value, 1, carry)

\* remaining.indexOf("\n"), counted from 1; 0 for -1.
indexOf(text) ==
  find({i \in 1..Len(text) : text[i] = "nl"})

\* String.prototype.trim on a text.
trimText(text) ==
  LET solid == {i \in 1..Len(text) : text[i] \notin {" ", "nl"}}
  IN IF solid = {} THEN <<>>
     ELSE SubSeq(text, CHOOSE i \in solid : \A j \in solid : i <= j,
                 CHOOSE i \in solid : \A j \in solid : i >= j)

\* enqueueEvent: JSON.parse takes the line whatever blanks surround it, and
\* the parsed event is appended to the timeline.
enqueueEvent(line, timeline) == Append(timeline, trimText(line))

\* Variant: the partial line after the last newline is thrown away.
RECURSIVE flushLinesDropsRemainder(_, _)
flushLinesDropsRemainder(buffer, timeline) ==
  LET newlineIndex == indexOf(buffer)
  IN IF newlineIndex = 0 THEN [remaining |-> <<>>, timeline |-> timeline]
     ELSE LET line == trimText(SubSeq(buffer, 1, newlineIndex - 1))
              remaining == SubSeq(buffer, newlineIndex + 1, Len(buffer))
          IN flushLinesDropsRemainder(remaining,
                                      IF Len(line) > 0 THEN enqueueEvent(line, timeline)
                                      ELSE timeline)

\* flushLines(buffer, (line) => enqueueEvent(line, setEvents)): the lines
\* handed to the callback, in order, and the text that remains.
RECURSIVE flushLines(_, _)
flushLines(buffer, timeline) ==
  LET newlineIndex == indexOf(buffer)
  IN IF newlineIndex = 0 THEN [remaining |-> buffer, timeline |-> timeline]
     ELSE LET line == trimText(SubSeq(buffer, 1, newlineIndex - 1))
              remaining == SubSeq(buffer, newlineIndex + 1, Len(buffer))
          IN flushLines(remaining,
                        IF Len(line) > 0 THEN enqueueEvent(line, timeline)
                        ELSE timeline)

InitReader ==
  \E s \in StreamChoices :
    AtRest([name |-> "flushLines", stream |-> s, chunks |-> <<>>, read |-> 0,
            carry |-> FALSE, buffer |-> <<>>, timeline |-> <<>>, done |-> FALSE])

\* One turn of the reader loop: a chunk of any size arrives.
ReadChunk ==
  /\ pc = "fn" /\ fn.name = "flushLines" /\ ~fn.done
  /\ \E n \in 1..(Len(fn.stream) - fn.read) :
       LET value == SubSeq(fn.stream, fn.read + 1, fn.read + n)
           decoded == decode(value, fn.carry)
           flushed == flushLines(fn.buffer \o decoded.text, fn.timeline)
       IN fn' = [fn EXCEPT !.chunks = Append(fn.chunks, n), !.read = fn.read + n,
                           !.carry = decoded.carry, !.buffer = flushed.remaining,
                           !.timeline = flushed.timeline]
  /\ UNCHANGED pvars

\* reader.read() reports done: a remainder that is not blank is enqueued.
ReadDone ==
  /\ pc = "fn" /\ fn.name = "flushLines" /\ ~fn.done
  /\ fn.read = Len(fn.stream)
  /\ fn' = [fn EXCEPT !.done = TRUE,
                      !.timeline = IF Len(trimText(fn.buffer)) > 0
                                   THEN enqueueEvent(fn.buffer, fn.timeline)
                                   ELSE fn.timeline]
  /\ UNCHANGED pvars

NextReader ==
  \/ ReadChunk
  \/ ReadDone

SpecReader == InitReader /\ [][NextReader]_vars

(***************************************************************************)
(* Properties.                                                             *)
(***************************************************************************)
TerminalIdx == {i \in 1..Len(events) : events[i].type \in {"final", "error"}}
FinalIdx == {i \in 1..Len(events) : events[i].type = "final"}
PlanIdx == {i \in 1..Len(events) : events[i].type = "ai.plan"}
Finished == pc \in {"closing", "done"}

\* Positions in the log of settled calls of the creation call of task t.
CreateSettledIdx(t) ==
  {k \in 1..Len(settled) : settled[k].op = "callTool.create" /\ settled[k].task = t}
CreateIssuedIdx(t) ==
  {k \in 1..Len(calls) : calls[k].op = "callTool.create" /\ calls[k].task = t}

\* C1 as stated: every run of the pipeline leaves exactly one terminal event
\* (final or error, never both) on the stream, and nothing after it.
C1_ExactlyOneTerminalInEveryRun ==
  /\ \A i \in TerminalIdx : i = Len(events)
  /\ pc = "done" => Cardinality(TerminalIdx) = 1

\* C1 amended: the stream never holds more than one terminal event and never
\* an event after it; once the pipeline body has finished the stream holds
\* exactly one terminal event unless the caller disconnected before it
\* could be written.
C1_AtMostOneTerminalAndOneUnlessDisconnected ==
  /\ Cardinality(TerminalIdx) <= 1
  /\ \A i \in TerminalIdx : i = Len(events)
  /\ (Finished /\ streamState # "cancelled") =>
        /\ Cardinality(TerminalIdx) = 1
        /\ streamState = "closed"

C1_Witness ==
  /\ pc = "done"
  /\ streamState = "closed"
  /\ Len(events) > 0
  /\ events[Len(events)].type = "error"
  /\ \E i \in 1..Len(events) : events[i].type = "status"

\* C2: whichever creation calls throw, syncWithTodoist attempts every task of
\* the list, and in the list it returns result i is "failed" exactly when
\* the creation call of task i threw and "created" otherwise.  (The sync has
\* ended with its event writes accepted: the body is finished, the creation
\* tool was resolved and the stream was not cancelled.)
C2_EveryTaskAttemptedAndStatusFollowsCall ==
  (Finished /\ toolName # "" /\ streamState # "cancelled") =>
     /\ Len(results) = Len(planTasks)
     /\ \A i \in 1..Len(planTasks) :
          /\ Cardinality(CreateSettledIdx(planTasks[i])) = 1
          /\ \A k \in CreateSettledIdx(planTasks[i]) :
               /\ results[i].status = "failed" <=> ~settled[k].ok
               /\ results[i].status = "created" <=> settled[k].ok

C2_Witness ==
  /\ pc = "done"
  /\ FinalIdx # {}
  /\ Len(results) = 3
  /\ results[1].status = "created"
  /\ results[2].status = "failed"
  /\ results[3].status = "created"
  /\ \E k \in CreateSettledIdx(planTasks[2]) : ~settled[k].ok

\* C3: the tasks of a final event are, index by index, the normalized tasks
\* published in ai.plan: same length, same order, none twice, none missing.
C3_FinalTasksMirrorPlan ==
  \A f \in FinalIdx :
    /\ Cardinality(PlanIdx) = 1
    /\ \A p \in PlanIdx :
         /\ p < f
         /\ Len(events[f].tasks) = Len(events[p].plan)
         /\ \A i \in 1..Len(events[p].plan) :
              events[f].tasks[i].planned = events[p].plan[i]

C3_Witness ==
  \E f \in FinalIdx :
    /\ client # Null
    /\ Len(events[f].tasks) = 3
    /\ events[f].tasks[1].status = "failed"
    /\ events[f].tasks[3].planned = 3

\* C4: a final event's created and failed are the numbers of its results with
\* status created and failed, and they add up to the number of normalized
\* tasks, so some-created-some-failed differs from none-created.
C4_FinalCountsPartitionTasks ==
  \A f \in FinalIdx :
    LET res == events[f].tasks
        nCreated == Cardinality({i \in 1..Len(res) : res[i].status = "created"})
        nFailed == Cardinality({i \in 1..Len(res) : res[i].status = "failed"})
    IN /\ events[f].created = nCreated
       /\ events[f].failed = nFailed
       /\ \A p \in PlanIdx : events[f].created + events[f].failed = Len(events[p].plan)
       /\ PlanIdx # {}
       /\ (nCreated > 0 /\ nFailed > 0) => (events[f].created > 0 /\ events[f].failed > 0)
       /\ nCreated = 0 => events[f].created = 0

C4_Witness ==
  \E f \in FinalIdx :
    /\ events[f].created = 2
    /\ events[f].failed = 1

TaskEvents == SelectSeq(events, LAMBDA e : e.type = "todoist.task")
CreateIssued == SelectSeq(calls, LAMBDA c : c.op = "callTool.create")
CreateSettled == SelectSeq(settled, LAMBDA c : c.op = "callTool.create")
ListIssuedIdx(h) ==
  {k \in 1..Len(calls) : calls[k].op = "callTool.list" /\ calls[k].half = h}
OpIssuedIdx(op) == {k \in 1..Len(calls) : calls[k].op = op}
OpSettledIdx(op) == {k \in 1..Len(settled) : settled[k].op = op}
CloseInvoked == OpIssuedIdx("close") # {}

\* C5: the todoist.task events are, task by task in list order, one pending
\* event followed by one created or failed event of the same task; the events
\* of task i come before the pending event of task i+1, and when the sync has
\* returned every task has both.
C5_PendingThenTerminalPerTaskInOrder ==
  /\ Len(TaskEvents) <= 2 * Len(planTasks)
  /\ \A k \in 1..Len(TaskEvents) :
       /\ TaskEvents[k].task = planTasks[(k + 1) \div 2]
       /\ (k % 2 = 1) => TaskEvents[k].status = "pending"
       /\ (k % 2 = 0) => TaskEvents[k].status \in {"created", "failed"}
  /\ (FinalIdx # {} /\ client # Null) => Len(TaskEvents) = 2 * Len(planTasks)

C5_Witness ==
  /\ Len(TaskEvents) = 5
  /\ TaskEvents[2].status = "failed"
  /\ TaskEvents[4].status = "created"
  /\ pc = "sync"

\* C6: at most one creation call is in flight, and the creation call of the
\* next task is issued only when the calls of all earlier tasks have settled.
C6_CreationCallsSequential ==
  /\ Cardinality({c \in pending : c.op = "callTool.create"}) <= 1
  /\ Len(CreateIssued) - Len(CreateSettled) \in {0, 1}
  /\ \A k \in 1..Len(CreateSettled) : CreateSettled[k].task = CreateIssued[k].task
  /\ Len(CreateIssued) > Len(CreateSettled) =>
       pending = {CreateIssued[Len(CreateIssued)]}

C6_Witness ==
  /\ Len(CreateIssued) = 3
  /\ Len(CreateSettled) = 2
  /\ ~CreateSettled[1].ok
  /\ Call("callTool.create", "", 3) \in pending

C8_ConnectOnceCloseExactlyOnce ==
  /\ Cardinality(OpIssuedIdx("connect")) <= 1
  /\ Cardinality(OpIssuedIdx("close")) <= 1
  /\ client = Null => ~CloseInvoked
  /\ (Finished /\ client # Null) => Cardinality(OpIssuedIdx("close")) = 1
  /\ (pc = "done" /\ client # Null) => Cardinality(OpSettledIdx("close")) = 1
  /\ ~Finished => ~CloseInvoked

C8_Witness ==
  /\ pc = "done"
  /\ Cardinality(OpSettledIdx("close")) = 1
  /\ \E k \in OpSettledIdx("connect") : ~settled[k].ok
  /\ events[Len(events)].type = "error"

\* C9 as stated: when close is called the terminal event has been written and
\* the stream closed, and nothing is written to the stream afterwards.
C9_CloseAfterTerminalEvent ==
  [][/\ CloseInvoked' => (TerminalIdx' # {} /\ streamState' = "closed")
     /\ CloseInvoked => events' = events]_vars

\* C9 amended: when close is called the stream no longer accepts writes: the
\* terminal event has been written and the stream closed, or the caller had
\* disconnected and the stream is cancelled without a terminal event; nothing
\* is written to the stream afterwards, whether the close succeeds or fails.
C9_CloseAfterStreamFinished ==
  [][/\ CloseInvoked' =>
          \/ TerminalIdx' # {} /\ streamState' = "closed"
          \/ TerminalIdx' = {} /\ streamState' = "cancelled"
     /\ CloseInvoked => events' = events]_vars

C9_Witness ==
  /\ pc = "done"
  /\ \E k \in OpSettledIdx("close") : ~settled[k].ok
  /\ FinalIdx # {}
  /\ streamState = "closed"

\* C10: an exception that reaches the pipeline's catch block, a failed write
\* to the stream included, ends in a terminal error event on a closed stream,
\* and no exception leaves the pipeline uncaught.
C10_ErrorsBecomeErrorEventNoneEscapes ==
  /\ ~uncaught
  /\ (Finished /\ FinalIdx = {}) =>
        /\ streamState = "closed"
        /\ events # <<>>
        /\ events[Len(events)].type = "error"

TaskIdx == {i \in 1..Len(events) : events[i].type = "todoist.task"}
ClassifiedIdx ==
  {i \in 1..Len(events) :
     events[i].type = "status" /\ events[i].stage = "intent:classified"}

\* C12: ai.plan is emitted at most once; when emitted it comes after the
\* intent:classified status event and before every todoist.task event; and
\* final comes after every todoist.task event.
C12_PlanOnceBetweenClassifiedAndTasks ==
  /\ Cardinality(PlanIdx) <= 1
  /\ \A p \in PlanIdx :
        /\ \E c \in ClassifiedIdx : c < p
        /\ \A t \in TaskIdx : p < t
  /\ \A f \in FinalIdx : \A t \in TaskIdx : t < f

\* A run that published a plan, synced two tasks or more and sent final.
C12_Witness ==
  /\ PlanIdx # {}
  /\ Cardinality(TaskIdx) >= 4
  /\ FinalIdx # {}
  /\ events[Len(events)].type = "final"

\* The ways a body fails validation that C13 names.
BodyFailsValidation ==
  \/ ~request.json
  \/ ~request.prompt.present
  \/ request.prompt.value = 0
  \/ request.labels.present /\ Len(request.labels.value) > 5
  \/ request.priority.present /\ request.priority.value \notin 1..4
  \/ request.maxTasks.present /\ request.maxTasks.value \notin 1..10
OriginAdmitted == env.origin # "" /\ request.origin \in {"none", env.origin}

\* C13: a request whose body fails validation is answered with a 400 response
\* (once the origin check has admitted it) before any stream is created: no
\* event is emitted, no external connection is opened and no generation or
\* other external call is made.
C13_InvalidBodyRejectedBeforeStream ==
  BodyFailsValidation /\ pc # "request" =>
    /\ pc = "rejected"
    /\ OriginAdmitted => reply = "400"
    /\ reply # "200"
    /\ streamState = "none"
    /\ events = <<>>
    /\ calls = <<>> /\ pending = {} /\ settled = <<>>
    /\ client = Null

\* A body with six labels and nothing else wrong has been answered with 400.
C13_Witness ==
  /\ pc = "rejected"
  /\ reply = "400"
  /\ request.labels.present /\ Len(request.labels.value) = 6
  /\ request.prompt.present /\ request.prompt.value >= 1

GenerationFailed == \E k \in OpSettledIdx("ai.plan") : ~settled[k].ok
NoPlanNoSync ==
  /\ PlanIdx = {}
  /\ TaskIdx = {}
  /\ OpIssuedIdx("callTool.create") = {}

\* C14 as stated: once plan generation has failed the stream ends with a
\* terminal error event, and there is no ai.plan event, no todoist.task event
\* and no task-creation call.
C14_GenerationFailureEndsInErrorEvent ==
  GenerationFailed =>
    /\ NoPlanNoSync
    /\ events # <<>> /\ events[Len(events)].type = "error"

\* C14 amended: once plan generation has failed there is no ai.plan event, no
\* todoist.task event, no task-creation call and no final event; the stream
\* ends with a terminal error event and is closed, unless the caller had
\* disconnected, in which case the stream holds no terminal event.
C14_GenerationFailureIsFatal ==
  GenerationFailed =>
    /\ NoPlanNoSync
    /\ FinalIdx = {} /\ results = <<>>
    /\ pc \in {"closing", "done"}
    /\ \/ /\ streamState = "closed"
          /\ events # <<>> /\ events[Len(events)].type = "error"
          /\ Cardinality(TerminalIdx) = 1
       \/ streamState = "cancelled" /\ TerminalIdx = {}

\* Generation failed with a connected client and a known creation tool.
C14_Witness ==
  /\ GenerationFailed
  /\ client # Null
  /\ availableTools.listed /\ resolveToolNameIn(availableTools.tools) # ""
  /\ events[Len(events)].type = "error"
  /\ pc = "done"

ClassificationFailed == \E k \in OpSettledIdx("ai.intent") : ~settled[k].ok
MalformedList == \E h \in Halves : listTool[h] = "malformed"

\* C15: when the classification call fails, classifyIntent returns intent
\* general_plan, the scenario is selected from it, and the pipeline goes on
\* to metadata discovery and the plan-generation call: a run that stops
\* before generation stopped for another reason (the caller disconnected, or
\* the mapping of the metadata raised).
C15_ClassificationFailureNotFatal ==
  ClassificationFailed =>
    /\ scenario.intent = "general_plan"
    /\ scenario.maxTasks = Min(MAX_TASKS, Max(MIN_TASKS, input.maxTasks))
    /\ (streamState # "cancelled" /\ ~MalformedList) =>
          \/ pc = "metadata" /\ ClassifiedIdx # {} /\ TerminalIdx = {}
          \/ OpIssuedIdx("ai.plan") # {} /\ ClassifiedIdx # {}

\* After a failed classification the generated plan has been published.
C15_Witness ==
  /\ ClassificationFailed
  /\ PlanIdx # {}
  /\ FinalIdx # {}

KnownCreationNames ==
  {"create_task", "add-task", "add_task", "create-task", "add-tasks", "add_tasks"}
NoCreationToolInCatalog ==
  /\ toolsList.listed
  /\ \A i \in 1..Len(toolsList.tools) : toolsList.tools[i].name \notin KnownCreationNames
SyncAborted ==
  /\ TaskIdx = {}
  /\ results = <<>>
  /\ FinalIdx = {}
  /\ OpIssuedIdx("callTool.create") = {}

FirstPreferredAmong(names) ==
  IF "create_task" \in names THEN "create_task"
  ELSE IF "add-task" \in names THEN "add-task"
  ELSE IF "add_task" \in names THEN "add_task"
  ELSE IF "create-task" \in names THEN "create-task"
  ELSE IF "add-tasks" \in names THEN "add-tasks"
  ELSE IF "add_tasks" \in names THEN "add_tasks"
  ELSE ""
Reversed(q) == [i \in 1..Len(q) |-> q[Len(q) + 1 - i]]

\* C17: creation-tool resolution returns the first name of the preference
\* list create_task, add-task, add_task, create-task, add-tasks, add_tasks
\* that is present in the catalog, whatever the order of the catalog (the
\* result depends on the set of names only); in a sync it is resolved once,
\* before the first creation call, and never changes afterwards.
C17_FirstPreferredToolResolvedOnce ==
  /\ [](/\ (fn.name = "resolveToolName" /\ fn.done) =>
             /\ fn.out = FirstPreferredAmong({fn.tools[i].name : i \in 1..Len(fn.tools)})
             /\ fn.out = resolveToolNameIn(Reversed(fn.tools))
        /\ toolsList.listed =>
             toolName = FirstPreferredAmong({toolsList.tools[i].name :
                                              i \in 1..Len(toolsList.tools)})
        /\ OpIssuedIdx("callTool.create") # {} => toolsList.listed /\ toolName # "")
  /\ [][/\ toolsList.listed => toolsList' = toolsList /\ toolName' = toolName
        /\ toolName # "" => toolName' = toolName]_vars

\* A catalog that lists a less preferred name before a more preferred one.
C17_Witness ==
  /\ fn.name = "resolveToolName" /\ fn.done
  /\ Len(fn.tools) = 3
  /\ fn.tools[1].name = "add_tasks"
  /\ fn.tools[2].name = "get-overview"
  /\ fn.tools[3].name = "add-task"
  /\ fn.out = "add-task"

\* The explicit alias names of each table, rule by rule in declared order,
\* and the keywords of its heuristic rule.
ExplicitAliasNames(half) ==
  IF half = "projects"
  THEN << {"todoist_projects"},
          {"todoist.projects.list", "todoist.projects.search", "todoist.projects.overview"},
          {"find-projects"} >>
  ELSE << {"todoist_labels"},
          {"todoist.labels.list", "todoist.labels.search"},
          {"find-labels"} >>
HeuristicKeywords(half) ==
  IF half = "projects" THEN {"project", "projects"} ELSE {"label", "labels", "tag", "tags"}
FnNames == {fn.tools[i].name : i \in 1..Len(fn.tools)}
\* The explicit rules that have a tool in the catalog.
ExplicitHits ==
  {r \in 1..3 : ExplicitAliasNames(fn.half)[r] \cap FnNames # {}}
HeuristicHits ==
  {i \in 1..Len(fn.tools) : matchesListTool(fn.tools[i], HeuristicKeywords(fn.half))}

\* C18: the alias rules are evaluated in declared order and the first
\* satisfied rule wins: a catalog that holds an explicitly named tool resolves
\* to a tool named by the first explicit rule that has one, also when a tool
\* matched by the heuristic is present and whatever the catalog order; with
\* no explicit name present the first heuristic match of the catalog is
\* resolved; when no rule matches the result is none.
C18_FirstSatisfiedAliasRuleWins ==
  (fn.name = "resolveListToolConfig" /\ fn.done) =>
    /\ ExplicitHits # {} =>
         LET r == CHOOSE x \in ExplicitHits : \A y \in ExplicitHits : x <= y
             rev == resolveListToolConfig(Reversed(fn.tools), AliasTable(fn.half))
         IN /\ fn.out.found
            /\ fn.out.name \in ExplicitAliasNames(fn.half)[r]
            /\ fn.out.name \in FnNames
            /\ rev.found /\ rev.name \in ExplicitAliasNames(fn.half)[r]
            /\ fn.out.hasKeys
    /\ (ExplicitHits = {} /\ HeuristicHits # {}) =>
         /\ fn.out.found
         /\ fn.out.name =
              fn.tools[CHOOSE i \in HeuristicHits : \A j \in HeuristicHits : i <= j].name
         /\ ~fn.out.hasKeys
    /\ (ExplicitHits = {} /\ HeuristicHits = {}) => fn.out = NoListTool

\* A heuristic-only tool precedes the explicitly named one in the catalog.
C18_Witness ==
  /\ fn.name = "resolveListToolConfig" /\ fn.done
  /\ fn.half = "projects"
  /\ Len(fn.tools) = 3
  /\ fn.tools[1].name = "list-projects"
  /\ fn.tools[2].name = "get-overview"
  /\ fn.tools[3].name = "todoist_projects"
  /\ fn.out.found /\ fn.out.name = "todoist_projects"

MetadataSettled == \A h \in Halves : listTool[h] \notin {"idle", "inflight"}

\* C19: metadata discovery never throws and never aborts the pipeline:
\* whatever the list tools are and whatever their calls return or raise,
\* once discovery has settled with the caller still connected the pipeline
\* has gone on to the plan-generation call, and no error event stands in for
\* it.
C19_MetadataNeverAbortsPipeline ==
  (MetadataSettled /\ streamState # "cancelled") =>
    /\ OpIssuedIdx("ai.plan") # {}
    /\ (events # <<>> /\ events[Len(events)].type = "error") =>
          OpSettledIdx("ai.plan") # {}

EnvelopeKeys == {"projects", "labels", "data", "items", "results", "structuredContent"}
\* The payload is an array, or an object of one member whose key is an
\* envelope key and whose value is an array or again such an object of an
\* array (one level nested).
FnPayload == fn.payload
IsWrappedArray(v) ==
  /\ v.kind = "object" /\ Len(v.entries) = 1
  /\ v.entries[1].key \in EnvelopeKeys
  /\ v.entries[1].val.kind = "array"
PayloadWrapsArray ==
  \/ FnPayload.kind = "array"
  \/ IsWrappedArray(FnPayload)
  \/ /\ FnPayload.kind = "object" /\ Len(FnPayload.entries) = 1
     /\ FnPayload.entries[1].key \in EnvelopeKeys
     /\ IsWrappedArray(FnPayload.entries[1].val)
RECURSIVE HoldsArray(_)
HoldsArray(v) ==
  \/ v.kind = "array"
  \/ \E i \in 1..Len(v.entries) : HoldsArray(v.entries[i].val)

\* C20: array extraction finds the array whichever of the envelope keys
\* projects, labels, data, items, results, structuredContent wraps it,
\* directly or one level nested, for every resolved list tool, those with a
\* preferred-key list included; and it returns an empty array when the
\* response holds no array.
C20_ArrayFoundUnderAnyEnvelopeKey ==
  (fn.name = "extractArrayPayload" /\ fn.done) =>
    /\ (fn.parses /\ PayloadWrapsArray) => fn.out = JsonArray(2)
    /\ (~fn.parses \/ ~HoldsArray(FnPayload)) => fn.out = JsonArray(0)

FnPlanned == fn.name = "generatePlan" /\ fn.done
FirstTasks(k) == [i \in 1..k |-> i]

\* C21: for every intent and every valid request scenario.maxTasks is in
\* 1..10, and whenever plan generation succeeds the normalized task list is
\* the first min(n, scenario.maxTasks) generated tasks in their original
\* order, so that 1 <= its length <= scenario.maxTasks; the same holds of the
\* plan the pipeline publishes.
C21_TaskCountWithinScenarioBound ==
  /\ FnPlanned =>
       /\ fn.scenario.maxTasks \in 1..10
       /\ fn.ok <=> fn.n >= 1
       /\ fn.ok =>
            /\ fn.tasks = FirstTasks(IF fn.n < fn.scenario.maxTasks THEN fn.n
                                     ELSE fn.scenario.maxTasks)
            /\ 1 <= Len(fn.tasks) /\ Len(fn.tasks) <= fn.scenario.maxTasks
  /\ scenario # NoScenario => scenario.maxTasks \in 1..10
  /\ \A p \in PlanIdx :
       /\ events[p].plan = planTasks
       /\ planTasks = FirstTasks(Len(planTasks))
       /\ 1 <= Len(planTasks) /\ Len(planTasks) <= scenario.maxTasks

\* Seven generated tasks are cut to the five the request allows.
C21_Witness ==
  /\ FnPlanned /\ fn.ok
  /\ fn.n = 7
  /\ fn.decision.intent = "general_plan" /\ fn.input.maxTasks = 5
  /\ fn.tasks = <<1, 2, 3, 4, 5>>

Clamp(v, lo, hi) == IF v < lo THEN lo ELSE IF v > hi THEN hi ELSE v
FnDays == IF fn.decision.days = 0 THEN 3 ELSE fn.decision.days

\* C22: determineScenario maps the intent to the task bound as the table
\* says: single_reminder 1; recipe_plan clamp(2 * clamp(days, 1, 5), 1, 10)
\* with days 3 when the decision has none; multi_step_plan
\* clamp(max(2, request.maxTasks), 1, 10); general_plan
\* clamp(request.maxTasks, 1, 10); and the scenario's intent is the decision's.
C22_ScenarioBoundFollowsTable ==
  FnPlanned =>
    /\ fn.scenario.intent = fn.decision.intent
    /\ fn.decision.intent = "single_reminder" => fn.scenario.maxTasks = 1
    /\ fn.decision.intent = "recipe_plan" =>
         fn.scenario.maxTasks = Clamp(2 * Clamp(FnDays, 1, 5), 1, 10)
    /\ fn.decision.intent = "multi_step_plan" =>
         fn.scenario.maxTasks =
           Clamp(IF fn.input.maxTasks < 2 THEN 2 ELSE fn.input.maxTasks, 1, 10)
    /\ fn.decision.intent = "general_plan" =>
         fn.scenario.maxTasks = Clamp(fn.input.maxTasks, 1, 10)

\* A multi-step plan for a request that allowed one task gets two.
C22_Witness ==
  /\ FnPlanned
  /\ fn.decision.intent = "multi_step_plan"
  /\ fn.input.maxTasks = 1
  /\ fn.scenario.maxTasks = 2

\* C23 as stated: a request classified recipe_plan with days = 3 results in a
\* plan of exactly 6 tasks.
C23_RecipePlanThreeDaysHasSixTasks ==
  (FnPlanned /\ fn.ok /\ fn.decision.intent = "recipe_plan" /\ fn.decision.days = 3) =>
    Len(fn.tasks) = 6

\* C23 amended: a request classified recipe_plan with days = 3 gets the task
\* bound 6, and its plan holds the first min(n, 6) of the n >= 1 generated
\* tasks: at most 6, and exactly 6 when 6 or more were generated.
C23_RecipePlanThreeDaysHasAtMostSixTasks ==
  (FnPlanned /\ fn.decision.intent = "recipe_plan" /\ fn.decision.days = 3) =>
    /\ fn.scenario.maxTasks = 6
    /\ fn.ok <=> fn.n >= 1
    /\ fn.ok => /\ Len(fn.tasks) = (IF fn.n < 6 THEN fn.n ELSE 6)
                /\ fn.n >= 6 => Len(fn.tasks) = 6

\* Seven generated tasks for three days of meals are cut to six.
C23_Witness ==
  /\ FnPlanned /\ fn.ok
  /\ fn.decision.intent = "recipe_plan" /\ fn.decision.days = 3
  /\ fn.n = 7
  /\ Len(fn.tasks) = 6

FnArgs == fn.name = "toTodoistArgs" /\ fn.done
NoMetadata == \A h \in Halves : listTool[h] \in {"none", "empty", "failed"}
SingleReminderPlanned ==
  scenario.intent = "single_reminder" /\ NoMetadata /\ PlanIdx # {}

FnDetected == fn.name = "detectPriorityFromPrompt" /\ fn.done
\* The cue that counts: the leftmost "p" cue, else the leftmost "priority"
\* cue, else the leftmost localized cue; 0 when the prompt has no cue.
CueAt(kind) ==
  LET hits == {i \in 1..Len(fn.prompt) :
                 fn.prompt[i].kind = kind /\ fn.prompt[i].digit \in 0..4}
  IN IF hits = {} THEN 0 ELSE CHOOSE i \in hits : \A j \in hits : i <= j
EffectiveCue ==
  IF CueAt("p") # 0 THEN CueAt("p")
  ELSE IF CueAt("priority") # 0 THEN CueAt("priority")
  ELSE CueAt("zh")

\* C25 as stated: cue P0 and P1 give 4, P2 gives 3, P3 gives 2, and any
\* other cue or no cue gives undefined.
C25_OnlyCuesZeroToThreeMapped ==
  FnDetected =>
    LET d == IF EffectiveCue = 0 THEN 9 ELSE fn.prompt[EffectiveCue].digit
    IN fn.out = (CASE d \in {0, 1} -> Opt(4)
                   [] d = 2 -> Opt(3)
                   [] d = 3 -> Opt(2)
                   [] OTHER -> None)

\* C25 amended: cue P0 and P1 give 4, P2 gives 3, P3 gives 2 and P4 gives 1,
\* in either letter case; a prompt with no cue, or only cues with another
\* digit, gives undefined.
C25_CuesZeroToFourMapped ==
  FnDetected =>
    LET d == IF EffectiveCue = 0 THEN 9 ELSE fn.prompt[EffectiveCue].digit
    IN fn.out = (CASE d \in {0, 1} -> Opt(4)
                   [] d = 2 -> Opt(3)
                   [] d = 3 -> Opt(2)
                   [] d = 4 -> Opt(1)
                   [] OTHER -> None)

\* "... P3 ... priority 1": the shorthand cue counts although it is upper case.
C25_Witness ==
  /\ FnDetected
  /\ Len(fn.prompt) = 2
  /\ fn.prompt[1] = Word("priority", 1, FALSE)
  /\ fn.prompt[2] = Word("p", 3, TRUE)
  /\ fn.out = Opt(2)

\* C26: a normalized task's priority is the task's own priority if it has
\* one, else the prompt-detected hint if there is one, else the request's
\* priority, else undefined; when defined it is an integer in 1..4.
C26_PriorityPrecedence ==
  (fn.name = "normalizePriority" /\ fn.done) =>
    /\ fn.task.present => fn.out = fn.task
    /\ (~fn.task.present /\ fn.hint.present) => fn.out = fn.hint
    /\ (~fn.task.present /\ ~fn.hint.present /\ fn.input.present) => fn.out = fn.input
    /\ (~fn.task.present /\ ~fn.hint.present /\ ~fn.input.present) => fn.out = None
    /\ fn.out.present => fn.out.value \in 1..4

\* No task priority, the prompt said P2 (hint 3), the request said 1.
C26_Witness ==
  /\ fn.name = "normalizePriority" /\ fn.done
  /\ fn.task = None /\ fn.hint = Opt(3) /\ fn.input = Opt(1)
  /\ fn.out = Opt(3)

HasLabels(list) == list.present /\ Len(list.value) > 0
\* The labels of a list that are more than blanks.
Usable(list) ==
  IF list.present THEN {i \in 1..Len(list.value) : trim(list.value[i]) # ""} ELSE {}
FnLabelled == fn.name = "normalizeLabels" /\ fn.passes >= 1

\* C27 as stated: the task's labels are used when it has any, otherwise the
\* request's when it has any, otherwise the prompt-inferred ones; the result
\* is undefined only when all three sources yield no label.
C27_LabelSourcePrecedence ==
  FnLabelled =>
    LET source == IF HasLabels(fn.task) THEN fn.task
                  ELSE IF HasLabels(fn.input) THEN fn.input
                  ELSE fn.inferred
    IN /\ fn.out = normalizeLabels(source, NoLabels, fn.catalog, NoLabels)
       /\ ~fn.out.present =>
            Usable(fn.task) = {} /\ Usable(fn.input) = {} /\ Usable(fn.inferred) = {}

\* The list normalizeLabels worked on in the first pass.
FnSource ==
  IF HasLabels(fn.task) THEN fn.task.value
  ELSE IF fn.input.present THEN fn.input.value
  ELSE fn.inferred.value
\* The labels of the source that are more than blanks and are not preceded
\* by a label that differs from them in case only, in their order, cut at
\* the cap.
FirstSeen ==
  LET l == FnSource
      key(i) == toLowerCase(trim(l[i]))
      first == {i \in 1..Len(l) :
                  /\ trim(l[i]) # ""
                  /\ \A j \in 1..(i - 1) : key(j) # key(i)}
      all == SelectSeq([i \in 1..Len(l) |-> i], LAMBDA i : i \in first)
  IN SubSeq(all, 1, Min(LabelCap, Len(all)))
\* The catalog name that equals s but for case, s when there is none.
Canonical(s) ==
  LET hits == {k \in 1..Len(fn.catalog) : toLowerCase(fn.catalog[k]) = toLowerCase(s)}
  IN IF hits = {} THEN s
     ELSE fn.catalog[CHOOSE k \in hits : \A j \in hits : k <= j]

\* C28 as stated: normalizing a normalized list returns it; labels that
\* differ only in case collapse to one entry carrying the first-seen casing;
\* survivors keep their order; the result has at most 5 labels.
C28_FirstSeenCasingKept ==
  FnLabelled =>
    /\ fn.out.present =>
          /\ fn.out.value = [k \in 1..Len(FirstSeen) |-> trim(FnSource[FirstSeen[k]])]
          /\ Len(fn.out.value) <= 5
    /\ (fn.passes = 2 /\ fn.out.present) => fn.again = fn.out

\* C28 amended: normalizing a normalized list returns it; labels that differ
\* only in case collapse to one entry, which carries the casing of the
\* catalog label of that name when there is one and the first-seen casing
\* otherwise; survivors keep their order; the result has at most 5 labels.
C28_CanonicalOrFirstSeenCasingKept ==
  FnLabelled =>
    /\ fn.out.present =>
          /\ fn.out.value =
               [k \in 1..Len(FirstSeen) |-> Canonical(trim(FnSource[FirstSeen[k]]))]
          /\ Len(fn.out.value) <= 5
          /\ Len(fn.out.value) >= 1
    /\ (fn.passes = 2 /\ fn.out.present) => fn.again = fn.out

\* " Urgent " and "urgent" collapse to the first-seen "Urgent" with no
\* catalog, and normalizing that again changes nothing.
C28_Witness ==
  /\ fn.name = "normalizeLabels" /\ fn.passes = 2
  /\ fn.catalog = <<>>
  /\ fn.task = Opt(<<" Urgent ", "urgent">>)
  /\ fn.out = Opt(<<"Urgent">>)
  /\ fn.again = fn.out

\* The due members the creation arguments carry.
DueArgs == {f \in {"dueDatetime", "dueDate", "dueString"} : fn.args[f].present}

\* C29: the normalized due keeps one representation only, the task's
\* datetime, else the task's date, else the task's (non-empty) string, else
\* the request's due hint as a string, and is undefined when there is none;
\* the creation arguments carry at most one of dueDatetime, dueDate,
\* dueString, the one that was kept.
C29_OneDueRepresentationByPrecedence ==
  FnArgs =>
    LET t == fn.task.due
        d == fn.normalized.due
        hint == fn.body.due
    IN /\ Truthy(t.datetime) => d = Due(TRUE, t.datetime, NoString, NoString)
       /\ (~Truthy(t.datetime) /\ Truthy(t.date)) =>
            d = Due(TRUE, NoString, t.date, NoString)
       /\ (~Truthy(t.datetime) /\ ~Truthy(t.date) /\ Truthy(t.string)) =>
            d = Due(TRUE, NoString, NoString, t.string)
       /\ (~Truthy(t.datetime) /\ ~Truthy(t.date) /\ ~Truthy(t.string) /\ Truthy(hint)) =>
            d = Due(TRUE, NoString, NoString, hint)
       /\ (~Truthy(t.datetime) /\ ~Truthy(t.date) /\ ~Truthy(t.string) /\ ~Truthy(hint)) =>
            d = NoDue
       /\ Cardinality(DueArgs) <= 1
       /\ fn.args.dueDatetime = d.datetime
       /\ fn.args.dueDate = d.date
       /\ fn.args.dueString = d.string

\* The task carries all three representations and the request a hint: only
\* the datetime is kept and sent.
C29_Witness ==
  /\ FnArgs
  /\ fn.task.due = Due(TRUE, Opt("2026-01-05T09:00:00Z"), Opt("2026-01-05"), Opt("tomorrow"))
  /\ fn.body.due = Opt("today")
  /\ DueArgs = {"dueDatetime"}
  /\ fn.normalized.due = Due(TRUE, Opt("2026-01-05T09:00:00Z"), NoString, NoString)

\* The catalog projects whose name equals the task's project name but for
\* case and surrounding blanks.
NameMatches ==
  {k \in 1..Len(fn.projects) :
     toLowerCase(fn.projects[k].name) = toLowerCase(trim(fn.task.project.value))}

\* C30: a task projectId that is present (not empty) is the resolved id;
\* otherwise a task project name that is present is matched against the
\* catalog whatever its case, the first match giving the id, and an
\* unmatched name is kept, trimmed, with no id; otherwise the project
\* inferred from the prompt is used; otherwise the project is unset.  The
\* inferred project never replaces a task's own projectId or project name.
C30_ProjectPrecedence ==
  FnArgs =>
    LET t == fn.task
        n == fn.normalized
    IN /\ Truthy(t.projectId) => n.projectId = t.projectId
       /\ (~Truthy(t.projectId) /\ Truthy(t.project) /\ NameMatches # {}) =>
            \E k \in NameMatches :
              /\ \A j \in NameMatches : k <= j
              /\ n.projectId = Opt(fn.projects[k].id)
              /\ n.projectName = Opt(fn.projects[k].name)
       /\ (~Truthy(t.projectId) /\ Truthy(t.project) /\ NameMatches = {}) =>
            /\ n.projectId = NoString
            /\ n.projectName = Opt(trim(t.project.value))
       /\ (~Truthy(t.projectId) /\ ~Truthy(t.project) /\ fn.inferred.found) =>
            /\ n.projectId = Opt(fn.inferred.id)
            /\ n.projectName = Opt(fn.inferred.name)
       /\ (~Truthy(t.projectId) /\ ~Truthy(t.project) /\ ~fn.inferred.found) =>
            /\ n.projectId = NoString
            /\ n.projectName = NoString

\* The task names a project the catalog does not have while the prompt
\* mentions Work: the name is kept with no id.
C30_Witness ==
  /\ FnArgs
  /\ fn.task.projectId = NoString
  /\ fn.task.project = Opt("Garden")
  /\ fn.inferred = Inferred(ProjectSummary("p1", "Work", FALSE))
  /\ fn.normalized.projectId = NoString
  /\ fn.normalized.projectName = Opt("Garden")

FnCalled == fn.name = "callArguments" /\ fn.done
BulkNames == {"add-tasks", "add_tasks"}
Flags == {"p1", "p2", "p3", "p4"}

\* C31: for the bulk tools add-tasks and add_tasks the arguments of a
\* creation call are an envelope {tasks: [...]} holding exactly one task's
\* arguments, whose priority, when the task has one, is one of the strings
\* p1..p4; for every other tool the task's arguments are sent bare and the
\* priority is the task's number 1..4.
C31_BulkToolWrapsAndFlagsPriority ==
  FnCalled =>
    LET p == fn.payload
        wrapped == "tasks" \in DOMAIN p
        args == IF wrapped THEN p.tasks[1] ELSE p
    IN /\ wrapped <=> fn.toolName \in BulkNames
       /\ wrapped => DOMAIN p = {"tasks"} /\ Len(p.tasks) = 1
       /\ args.projectId = toTodoistArgs(fn.task, fn.body).projectId
       /\ args.dueDate = toTodoistArgs(fn.task, fn.body).dueDate
       /\ args.dueString = toTodoistArgs(fn.task, fn.body).dueString
       /\ ~fn.task.priority.present => args.priority.kind = "absent"
       /\ (fn.task.priority.present /\ wrapped) =>
            /\ args.priority.kind = "string"
            /\ args.priority.string \in Flags
       /\ (fn.task.priority.present /\ ~wrapped) =>
            /\ args.priority.kind = "number"
            /\ args.priority.number = fn.task.priority.value
            /\ args.priority.number \in 1..4

\* add-tasks is sent one task of API priority 4 as {tasks: [{priority: "p1"}]}.
C31_Witness ==
  /\ FnCalled
  /\ fn.toolName = "add-tasks"
  /\ fn.task.priority = Opt(4)
  /\ "tasks" \in DOMAIN fn.payload
  /\ Len(fn.payload.tasks) = 1
  /\ fn.payload.tasks[1].priority.string = "p1"

\* The creation call of task t is in flight.
CreatePending(t) == Call("callTool.create", "", t) \in pending

\* C32: once the caller has disconnected no further event is put on the
\* stream, and a creation call in flight at that time is not interrupted: it
\* settles, by returning or by throwing.
C32_DisconnectStopsEventsNotCalls ==
  /\ [][streamState = "cancelled" => events' = events]_vars
  /\ [][\A c \in pending : c.op = "callTool.create" =>
          (c \in pending' \/ \E k \in 1..Len(settled') : settled'[k].task = c.task
                                                        /\ settled'[k].op = c.op)]_vars
  /\ \A t \in 1..MAX_TASKS :
       (CreatePending(t) /\ streamState = "cancelled") ~> (CreateSettledIdx(t) # {})

\* The caller went away while the creation call of task 1 was in flight: the
\* call has returned all the same, and the stream holds the pending event of
\* the task but no created or failed event.
C32_Witness ==
  /\ streamState = "cancelled"
  /\ \E k \in CreateSettledIdx(1) : settled[k].ok
  /\ \E i \in TaskIdx : events[i].task = 1 /\ events[i].status = "pending"
  /\ \A i \in TaskIdx : events[i].task = 1 => events[i].status = "pending"

FnParsed == fn.name = "parseToolJson" /\ fn.done
FnBlocks == fn.response.content
\* The first index of a set of block positions, 0 when it is empty.
FirstBlock(hits) == IF hits = {} THEN 0 ELSE CHOOSE i \in hits : \A j \in hits : i <= j
JsonBlocks == {i \in 1..Len(FnBlocks) : FnBlocks[i].type = "json" /\ FnBlocks[i].json # Undefined}
\* The text blocks whose text is JSON, fenced or not.
JsonTextBlocks ==
  {i \in 1..Len(FnBlocks) :
     /\ FnBlocks[i].type = "text" /\ FnBlocks[i].text.kind = "string"
     /\ FnBlocks[i].text.payload # Undefined}
PlainTextBlocks ==
  {i \in 1..Len(FnBlocks) : FnBlocks[i].type = "text" /\ FnBlocks[i].text.kind = "string"}

\* C33 as stated: the payload is the structured content, else that of a
\* json-typed content block, else the JSON of a text content block, fenced
\* or not, the first of these that yields a payload; failing those the plain
\* text is what is left, and a response with none of them has no parseable
\* payload.
C33_FirstSourceWithPayloadWins ==
  FnParsed =>
    LET structured == IF fn.response.structuredContent # Undefined
                      THEN fn.response.structuredContent
                      ELSE fn.response.structured_content
    IN /\ structured # Undefined => fn.out = structured
       /\ (structured = Undefined /\ JsonBlocks # {}) =>
            fn.out = FnBlocks[FirstBlock(JsonBlocks)].json
       /\ (structured = Undefined /\ JsonBlocks = {} /\ JsonTextBlocks # {}) =>
            fn.out = FnBlocks[FirstBlock(JsonTextBlocks)].text.payload
       /\ (structured = Undefined /\ JsonBlocks = {} /\ JsonTextBlocks = {}) =>
            /\ fn.out = Undefined
            /\ PlainTextBlocks # {} => fn.parsed.message.kind = "string"
            /\ PlainTextBlocks = {} => fn.parsed = NoParsed

FnMatched == fn.name = "matchesListTool" /\ fn.done
\* The lower-cased words of the descriptor's name and description.
FnText ==
  {toLowerCase(fn.descriptor.name)} \cup
    (IF fn.descriptor.description.present
     THEN {toLowerCase(w) : w \in fn.descriptor.description.value} ELSE {})
TextHas(keywords) == \E w \in FnText, k \in keywords : k \in KeywordsIn(w)
Capability(half) ==
  IF half = "projects" THEN {"project", "projects"} ELSE {"label", "labels", "tag", "tags"}

\* C34: the heuristic predicate holds for a descriptor exactly when its
\* lower-cased name and description text contains a capability keyword and
\* a list-verb keyword and no mutating keyword; a tool whose text contains a
\* mutating keyword is never the one the heuristic rule selects.
C34_HeuristicNeedsCapabilityAndVerbAndNoMutation ==
  FnMatched =>
    /\ fn.out <=> /\ TextHas(Capability(fn.half))
                  /\ TextHas(LIST_VERB_KEYWORDS)
                  /\ ~TextHas(MUTATING_KEYWORDS)
    /\ TextHas(MUTATING_KEYWORDS) => fn.selected # 1
    /\ fn.selected = 1 <=> fn.out

\* "find-labels" described with the word Settings: the text contains "set",
\* the predicate fails and the rule selects the next list tool.
C34_Witness ==
  /\ FnMatched
  /\ fn.half = "labels"
  /\ fn.descriptor = Descriptor("find-labels", Opt({"Settings"}))
  /\ ~fn.out
  /\ fn.selected = 3

\* No MCP URL or no token: createTransport returns null and no client exists.
NotConfigured == pc \notin {"request", "rejected", "start"} /\ createTransport(env) = "null"
ErrorIdx == {i \in 1..Len(events) : events[i].type = "error"}
AllFailed(f) ==
  /\ Len(events[f].tasks) = Len(planTasks)
  /\ Len(planTasks) >= 1
  /\ \A i \in 1..Len(planTasks) :
       events[f].tasks[i] = TaskResult(planTasks[i], "failed")
  /\ events[f].created = 0
  /\ events[f].failed = Len(planTasks)

\* C35 as stated: without a client the request ends with a final event and
\* not with an error; no creation call is made, no todoist.task event is
\* emitted, and the final event lists every planned task as failed, with
\* created = 0 and failed = the number of tasks.
C35_NoClientAlwaysEndsInFinal ==
  (NotConfigured /\ pc = "done") =>
    /\ FinalIdx # {} /\ ErrorIdx = {}
    /\ OpIssuedIdx("callTool.create") = {}
    /\ TaskIdx = {}
    /\ \A f \in FinalIdx : AllFailed(f)

\* C35 amended: without a client no call is made to the external service and
\* no todoist.task event is emitted; once a plan has been published the
\* request ends with a final event and no error event, and the final event
\* lists every planned task as failed, with created = 0 and failed = the
\* number of tasks; a request that ends without a plan (the generation
\* failed, or the caller left before it returned) has no final event.
C35_NoClientPlanEndsInFinalAllFailed ==
  NotConfigured =>
    /\ client = Null
    /\ calls = SelectSeq(calls, LAMBDA c : c.op \in {"ai.intent", "ai.plan"})
    /\ TaskIdx = {}
    /\ PlanIdx # {} => FinalIdx # {} /\ ErrorIdx = {} /\ pc = "done"
    /\ FinalIdx # {} => PlanIdx # {}
    /\ \A f \in FinalIdx : AllFailed(f)

\* No token: two tasks were planned and the final event reports both failed.
C35_Witness ==
  /\ NotConfigured /\ pc = "done"
  /\ ~env.token
  /\ Len(planTasks) = 2
  /\ \E f \in FinalIdx : events[f].failed = 2 /\ events[f].created = 0

\* The identifier a parsed payload carries: id, else task_id, else uuid.
IdOf(v) ==
  IF ~Nullish(Lookup(v, "id")) THEN Lookup(v, "id")
  ELSE IF ~Nullish(Lookup(v, "task_id")) THEN Lookup(v, "task_id")
  ELSE Lookup(v, "uuid")
CreatedEventIdx(t) ==
  {i \in TaskIdx : events[i].task = t /\ events[i].status = "created"}
CreatedResultIdx(t) ==
  {i \in 1..Len(results) : results[i].planned = t /\ results[i].status = "created"}

\* C36: whatever the response of a returned creation call holds, the result
\* recorded for the task is "created", with the identifier of the parsed
\* payload or none; a task has a created result exactly when its creation
\* call has returned, a created event only then, and a created event
\* whenever the call returned and the caller has not disconnected.
C36_CreatedIffCallReturned ==
  /\ FnParsed =>
       /\ fn.result.status = "created"
       /\ fn.result.todoistId = IF Falsy(fn.out) THEN Undefined ELSE IdOf(fn.out)
  /\ \A t \in 1..MAX_TASKS :
       LET returned == \E k \in CreateSettledIdx(t) : settled[k].ok
       IN /\ CreatedResultIdx(t) # {} <=> returned
          /\ CreatedEventIdx(t) # {} => returned
          /\ (returned /\ streamState # "cancelled") => CreatedEventIdx(t) # {}
          /\ Cardinality(CreatedEventIdx(t)) <= 1

\* The response of the returned call is the plain text "Task created": the
\* result is created and has no identifier.
C36_Witness ==
  /\ FnParsed
  /\ fn.response.content = <<Block("text", "", Undefined, Text("string", FALSE, Undefined))>>
  /\ fn.response.structuredContent = Undefined
  /\ fn.response.structured_content = Undefined
  /\ fn.result.status = "created"
  /\ fn.result.todoistId = Undefined
  /\ fn.parsed.message.kind = "string"

CreateCalls(log) == {k \in 1..Len(log) : log[k].op = "callTool.create"}
CreateInFlight == {c \in pending : c.op = "callTool.create"}

\* C37: once the caller has disconnected no creation call is started; a
\* creation call that settles after the disconnect leaves none in flight and
\* ends the sync; and the tasks after the one being processed have never
\* been sent to the external service.
C37_NoCreationCallAfterDisconnect ==
  /\ [](streamState = "cancelled" =>
         /\ Cardinality(CreateInFlight) <= 1
         /\ \A t \in 1..MAX_TASKS :
              (\E i \in 1..Len(planTasks) : i > idx /\ planTasks[i] = t)
                => CreateIssuedIdx(t) = {})
  /\ [][streamState = "cancelled" =>
          /\ CreateCalls(calls') = CreateCalls(calls)
          /\ CreateCalls(settled') # CreateCalls(settled)
               => (CreateInFlight' = {} /\ pc' # "sync")]_vars

\* The caller left during the first creation call of a longer plan: that call
\* has settled, the request is over, and the later tasks were never sent.
C37_Witness ==
  /\ streamState = "cancelled"
  /\ pc = "done"
  /\ Len(planTasks) >= 2
  /\ CreateSettledIdx(planTasks[1]) # {}
  /\ \A i \in 2..Len(planTasks) : CreateIssuedIdx(planTasks[i]) = {}
  /\ TerminalIdx = {}

FnFlagged == fn.name = "mapApiPriorityToUiFlag" /\ fn.done
CueFlags == <<"p1", "p2", "p3", "p4">>

IsClient == pc = "fn" /\ fn.name = "client"

\* C39: while a /plan request is being read isStreaming is true and
\* abortControllerRef holds the controller of that request.
C39_ReadRequestIsCancellable ==
  IsClient =>
    \A r \in 1..MaxSubmits :
      fn.requests[r] = "reading" => (fn.isStreaming /\ fn.abortControllerRef = r)

\* The characters of a whole stream, and its lines: the texts between
\* consecutive newlines, those that are not blank, without the blanks around
\* them, in stream order.
CharsOf(bytes) ==
  LET kept == SelectSeq(bytes, LAMBDA b : b # "e1")
  IN [i \in 1..Len(kept) |-> IF kept[i] = "e2" THEN "e" ELSE kept[i]]
LineStarts(chars) == {1} \cup {i + 1 : i \in {j \in 1..Len(chars) : chars[j] = "nl"}}
LineAt(chars, start) ==
  LET stops == {j \in start..Len(chars) : chars[j] = "nl"} \cup {Len(chars) + 1}
      stop == CHOOSE j \in stops : \A k \in stops : j <= k
      solid == {j \in start..(stop - 1) : chars[j] # " "}
      first == CHOOSE j \in solid : \A k \in solid : j <= k
      last == CHOOSE j \in solid : \A k \in solid : j >= k
  IN IF solid = {} THEN <<>>
     ELSE [i \in 1..(last - first + 1) |-> chars[first + i - 1]]
SolidStarts(chars) == {s \in LineStarts(chars) : LineAt(chars, s) # <<>>}
LinesOf(bytes) ==
  LET chars == CharsOf(bytes)
      starts == SolidStarts(chars)
  IN [i \in 1..Cardinality(starts) |->
        LineAt(chars, CHOOSE s \in starts : Cardinality({t \in starts : t < s}) = i - 1)]
IsReader == pc = "fn" /\ fn.name = "flushLines"

\* C40: however the stream is cut into chunks, the lines delivered so far
\* are the first non-blank lines of the stream, whole and in order, and once
\* the stream has ended they are all of them, each exactly once.
C40_LinesIndependentOfChunks ==
  IsReader =>
    LET lines == LinesOf(fn.stream)
    IN /\ Len(fn.timeline) <= Len(lines)
       /\ fn.timeline = SubSeq(lines, 1, Len(fn.timeline))
       /\ fn.done => fn.timeline = lines

\* A stream of two lines, the first a two-byte character, read in three
\* chunks of which the first ends between the two bytes.
C40_Witness ==
  /\ IsReader /\ fn.done
  /\ fn.stream = <<"e1", "e2", "nl", "a">>
  /\ fn.chunks = <<1, 2, 1>>
  /\ fn.timeline = << <<"e">>, <<"a">> >>

====
